---- MODULE Spec2Model ----
(***************************************************************************)
(* A model of the betstreamer server core: the jurisdiction filter, the    *)
(* arbitrage detector, the hedge calculator, the job scheduler and the     *)
(* credit-conscious scan (src/server/services/*.ts, src/unnamed/part_005,  *)
(* src/server/auth.ts).                                                    *)
(*                                                                         *)
(* Numbers.  The code computes in IEEE doubles; the model computes in      *)
(* exact rationals <<numerator, denominator>> (denominator > 0) and        *)
(* applies Math.round where the code does.  American odds are integers     *)
(* (+104, -200), decimal prices rationals, minProfitPct is in thousandths  *)
(* of a percent, a reported profitPct in hundredths of a percent, money in *)
(* cents where a column of scale 2 holds it.                               *)
(*                                                                         *)
(* One module holds several specifications, each over the same variables:  *)
(* the variables a specification does not exercise stay at their initial   *)
(* value.                                                                  *)
(***************************************************************************)
EXTENDS Integers, Sequences, FiniteSets, TLC

VARIABLES
    stateMap,      \* ArbitrageService.stateMap: ordered entries state -> bookmakers
    filterCall,    \* the last filterBookmakersByStates call and what it returned
    apiKey,        \* OddsService.apiKey is configured (non-empty)
    jobRuns,       \* the job_runs table, in insertion (startedAt) order
    calls,         \* the requests in flight: runJob calls and scan calls, each with its position
    market,        \* the market handed to the detector: its outcomes with each bookmaker's price
    minProfitPct,  \* the detector's minProfitPct, in thousandths of a percent
    calculated,    \* what calculateArbitrageOpportunities returned for the market
    detected,      \* what detectArbitrage returned for the market's quotes
    eventStatus,   \* the status of the event the bet is on ("none" before it is created)
    userBet,       \* the user_bets row of the bet
    betQuotes,     \* the quotes of the bet's market, in insertion order
    monitoredBets, \* HedgeService.monitoredBets
    suggestions,   \* the hedge_suggestions table
    hedgeCall,     \* the calculateHedgeSuggestion call in flight and what the last one returned
    oddsData,      \* the markets handed to steps 3 - 5 of a scan, in order
    arbRows,       \* the arbitrage_opportunities table, in insertion order
    clock,         \* the time, in seconds
    ranking,       \* what steps 3 - 5 of the last scan returned, and the table before them
    providerEvent, \* the bookmakers of the event the provider returned, each with its h2h outcomes
    storedMarket,  \* the markets row of the event's h2h market (no outcomes before it is created)
    storedQuotes,  \* the quotes of that market, in insertion order
    scanResult,    \* what the scan made of the stored data
    monitorRun,    \* the job_runs row of the last hedge_monitor run, with its metrics
    arbsResponse,  \* what the last GET /api/arbs returned, and when
    trackRequest,  \* the last POST /api/bets/:betId/track and what it did
    flagRow,       \* the feature_flags row of the key: its enabled (<<>> while there is no row)
    flagService,   \* FeatureFlagService.cache and cacheExpiry, for the key
    flagCalls,     \* the isEnabled calls for the key, each with its position
    flagUpdate     \* the update of the flag in flight, and the last completed one

vars == <<stateMap, filterCall, apiKey, jobRuns, calls, market, minProfitPct, calculated, detected, eventStatus, userBet, betQuotes, monitoredBets, suggestions, hedgeCall, oddsData, arbRows, clock, ranking, providerEvent, storedMarket, storedQuotes, scanResult, monitorRun, arbsResponse, trackRequest, flagRow, flagService, flagCalls, flagUpdate>>

filterVars == <<filterCall>>
systemVars == <<apiKey, jobRuns, calls>>
detectVars == <<market, minProfitPct, calculated, detected>>

hedgeVars == <<eventStatus, userBet, betQuotes, monitoredBets, suggestions, hedgeCall>>
rankVars == <<oddsData, arbRows, clock, ranking>>
ingestVars == <<providerEvent, storedMarket, storedQuotes, scanResult>>
flagVars == <<flagRow, flagService, flagCalls, flagUpdate>>
serviceVars == <<monitorRun, arbsResponse, trackRequest, flagVars>>

(***************************************************************************)
(* Generic helpers over arrays (sequences).                                *)
(***************************************************************************)
Includes(arr, x) == \E i \in 1..Len(arr) : arr[i] = x

ToSet(arr) == {arr[i] : i \in 1..Len(arr)}

\* Array.from(new Set(arr)): the first occurrence of each element, in order.
Dedup(arr) == SelectSeq([i \in 1..Len(arr) |-> IF \E j \in 1..(i - 1) : arr[j] = arr[i] THEN "" ELSE arr[i]], LAMBDA b : b # "")

\* All sequences over S of length at most n.
SeqsUpTo(S, n) == UNION {[1..k -> S] : k \in 0..n}

\* The sequences of SeqsUpTo without a repeated element.
DistinctSeqsUpTo(S, n) == {s \in SeqsUpTo(S, n) : \A i, j \in 1..Len(s) : i # j => s[i] # s[j]}

(***************************************************************************)
(* 4.1 State/Bookmaker eligibility filter.                                 *)
(***************************************************************************)
MaxMapSize == 2      \* entries of a state map
MaxBookList == 2     \* length of one state's bookmaker array
MaxStates == 3       \* length of a request's states array

StateCodes == {"CA", "NJ", "NY"}
Books == {"draftkings", "fanduel"}

BookLists == SeqsUpTo(Books, MaxBookList)

\* A state map is the ordered list of its entries (Object.entries order); keys are unique.
StateMaps == UNION {{[i \in 1..Len(ks) |-> [state |-> ks[i], bookmakers |-> bl[i]]] : bl \in [1..Len(ks) -> BookLists]} : ks \in DistinctSeqsUpTo(StateCodes, MaxMapSize)}

StateLists == SeqsUpTo(StateCodes, MaxStates)

\* The map the service is constructed with, cut down to three of its states and
\* to the two bookmakers every state lists first.
DefaultStateMap == <<[state |-> "CA", bookmakers |-> <<"draftkings", "fanduel">>], [state |-> "NJ", bookmakers |-> <<"draftkings", "fanduel">>], [state |-> "NY", bookmakers |-> <<"draftkings", "fanduel">>]>>

\* The inner loop of the filter: keep only bookmakers that exist in this state too.
RetainIncluded(accessible, bookmakers) == SelectSeq(accessible, LAMBDA b : Includes(bookmakers, b))

RECURSIVE FilterLoop(_, _, _, _)
FilterLoop(map, states, i, accessible) ==
    IF i > Len(map) THEN accessible
    ELSE IF Includes(states, map[i].state)
         THEN IF Len(accessible) = 0
              THEN FilterLoop(map, states, i + 1, accessible \o map[i].bookmakers)
              ELSE FilterLoop(map, states, i + 1, RetainIncluded(accessible, map[i].bookmakers))
         ELSE FilterLoop(map, states, i + 1, accessible)

filterBookmakersByStates(map, states) ==
    IF Len(states) = 0 THEN <<>> ELSE Dedup(FilterLoop(map, states, 1, <<>>))

NoFilterCall == [called |-> FALSE, states |-> <<>>, result |-> <<>>]

\* PUT /api/state-map -> updateStateMap: the map is replaced as a whole.
updateStateMap(newStateMap) ==
    /\ stateMap' = newStateMap
    /\ filterCall' = NoFilterCall
    /\ UNCHANGED <<systemVars, detectVars, hedgeVars, rankVars, ingestVars, serviceVars>>

\* One call of filterBookmakersByStates against the current map.
FilterBookmakers(states) ==
    /\ filterCall' = [called |-> TRUE, states |-> states, result |-> filterBookmakersByStates(stateMap, states)]
    /\ UNCHANGED <<stateMap, systemVars, detectVars, hedgeVars, rankVars, ingestVars, serviceVars>>

(***************************************************************************)
(* Exact arithmetic: a rational is <<numerator, denominator>> in lowest    *)
(* terms with a positive denominator.                                      *)
(***************************************************************************)
RECURSIVE Gcd(_, _)
Gcd(a, b) == IF b = 0 THEN a ELSE Gcd(b, a % b)

Abs(n) == IF n < 0 THEN -n ELSE n

Rat(n, d) == LET g == Gcd(Abs(n), d) IN <<n \div g, d \div g>>

RatAdd(r, s) == Rat(r[1] * s[2] + s[1] * r[2], r[2] * s[2])

RatSub(r, s) == Rat(r[1] * s[2] - s[1] * r[2], r[2] * s[2])

RatMul(r, s) == Rat(r[1] * s[1], r[2] * s[2])

\* r / s for s > 0.
RatDiv(r, s) == Rat(r[1] * s[2], r[2] * s[1])

RatLess(r, s) == r[1] * s[2] < s[1] * r[2]

RatLeq(r, s) == r[1] * s[2] <= s[1] * r[2]

\* Math.round: the nearest integer, a half rounded up.
MathRound(r) == (2 * r[1] + r[2]) \div (2 * r[2])

\* Math.round(r * 1000 * k): the product is formed in two steps to stay within 32 bits.
MathRoundScaled(r, k) ==
    LET whole == r[1] \div r[2]
        rest == r[1] % r[2]
        thousands == (1000 * rest) \div r[2]
        rest2 == (1000 * rest) % r[2]
    IN (1000 * k) * whole + k * thousands + MathRound(<<k * rest2, r[2]>>)

RECURSIVE RatSum(_)
RatSum(rs) == IF Len(rs) = 0 THEN <<0, 1>> ELSE RatAdd(rs[1], RatSum(Tail(rs)))

(***************************************************************************)
(* 4.2 Arbitrage detector: calculateArbitrageOpportunities (American odds  *)
(* per outcome and bookmaker) and detectArbitrage (decimal quotes).        *)
(***************************************************************************)
MaxOutcomes == 3     \* outcomes of a market

\* The prices of the bounds; their decimal values 1.5, 2.04 and 4 are exact at the
\* four places a quote's priceValue column keeps.
AmericanOdds == {-200, 104, 300}

\* The buffer of calculateArbitrageOpportunities, 0.98: an arbitrage needs sum < 0.98.
SafetyMargin == <<49, 50>>

Bankroll == 10000

\* A conversion that treats negative odds like positive ones.
convertAmericanToDecimal_PositiveOnly(americanOdds) == Rat(Abs(americanOdds) + 100, 100)

\* convertAmericanToDecimal, for odds other than 0.
convertAmericanToDecimal(americanOdds) ==
    IF americanOdds > 0 THEN Rat(americanOdds + 100, 100) ELSE Rat(100 + Abs(americanOdds), Abs(americanOdds))

\* formatOdds: the odds as text, "+" before positive odds; the text is held as
\* its sign prefix and its number.
formatOdds(americanOdds) == IF americanOdds > 0 THEN <<"+", americanOdds>> ELSE <<"", americanOdds>>

formatSportsbookName(key) ==
    CASE key = "fanduel" -> "FanDuel"
      [] key = "draftkings" -> "DraftKings"
      [] key = "caesars" -> "Caesars"
      [] key = "betmgm" -> "BetMGM"
      [] key = "betrivers" -> "BetRivers"
      [] OTHER -> key

\* The loop over one outcome's bookmakers: a strictly better decimal price replaces
\* the best so far, which starts as {sportsbook: "", decimal: 0}.
RECURSIVE BestPriceLoop(_, _, _)
BestPriceLoop(bookmakers, i, bestPrice) ==
    IF i > Len(bookmakers) THEN bestPrice
    ELSE LET decimal == convertAmericanToDecimal(bookmakers[i].price)
         IN IF RatLess(bestPrice.decimal, decimal)
            THEN BestPriceLoop(bookmakers, i + 1, [sportsbook |-> bookmakers[i].key, price |-> bookmakers[i].price, decimal |-> decimal])
            ELSE BestPriceLoop(bookmakers, i + 1, bestPrice)

BestPrice(outcome) == BestPriceLoop(outcome.bookmakers, 1, [sportsbook |-> "", price |-> 0, decimal |-> <<0, 1>>])

\* bestPrices: one entry per outcome that has a best price, in the outcomes' order
\* (outcome names are distinct within a market).
BestPrices(mkt) ==
    LET all == [i \in 1..Len(mkt.outcomes) |-> [outcome |-> mkt.outcomes[i].name, best |-> BestPrice(mkt.outcomes[i])]]
    IN SelectSeq(all, LAMBDA e : e.best.sportsbook # "")

ImpliedSum(bestPrices) == RatSum([i \in 1..Len(bestPrices) |-> RatDiv(<<1, 1>>, bestPrices[i].best.decimal)])

\* A stake fraction that is not normalised by the sum: 1 / decimal alone.
StakeFraction_NotNormalised(decimal, sum) == RatDiv(<<1, 1>>, decimal)

\* stakeFraction = (1 / decimal) / sum.
StakeFraction(decimal, sum) == RatDiv(RatDiv(<<1, 1>>, decimal), sum)

\* confidenceScore: Math.min(0.95, 0.7 + profitPct / 10) on the unrounded
\* profitPct = gain * 100.
ConfidenceScore(gain) ==
    LET score == RatAdd(<<7, 10>>, RatMul(<<10, 1>>, gain))
    IN IF RatLess(<<19, 20>>, score) THEN <<19, 20>> ELSE score

\* The opportunity built for a market whose sum passed both tests.
\* profitPct is in hundredths of a percent, lockedProfit in cents, validityWindow
\* in seconds, confidenceScore an exact fraction.
BuildOpportunity(bestPrices, sum) ==
    LET gain == RatSub(RatDiv(<<1, 1>>, sum), <<1, 1>>)
    IN [legs |-> [i \in 1..Len(bestPrices) |->
                    [outcome |-> bestPrices[i].outcome,
                     sportsbook |-> formatSportsbookName(bestPrices[i].best.sportsbook),
                     odds |-> formatOdds(bestPrices[i].best.price),
                     stake |-> MathRound(RatMul(<<Bankroll, 1>>, StakeFraction(bestPrices[i].best.decimal, sum)))]],
        profitPct |-> MathRound(RatMul(<<10000, 1>>, gain)),
        lockedProfit |-> MathRoundScaled(gain, 1000),
        validityWindow |-> 300,
        confidenceScore |-> ConfidenceScore(gain)]

\* The profit test: profitPct >= minProfitPct, on the unrounded profit.
MeetsMinProfit(sum, minPct) == RatLeq(<<minPct, 1000>>, RatMul(<<100, 1>>, RatSub(RatDiv(<<1, 1>>, sum), <<1, 1>>)))

\* The body of the loop over the markets: the opportunities one market adds.
CalculateMarket(mkt, minPct) ==
    LET bestPrices == BestPrices(mkt)
        sum == ImpliedSum(bestPrices)
    IN IF Len(bestPrices) >= 2 /\ RatLess(sum, SafetyMargin) /\ MeetsMinProfit(sum, minPct)
       THEN <<BuildOpportunity(bestPrices, sum)>>
       ELSE <<>>

RECURSIVE calculateArbitrageOpportunities(_, _)
calculateArbitrageOpportunities(markets, minPct) ==
    IF Len(markets) = 0 THEN <<>>
    ELSE CalculateMarket(markets[1], minPct) \o calculateArbitrageOpportunities(Tail(markets), minPct)

\* opportunities.sort((a, b) => b.lockedProfit - a.lockedProfit): the sort is
\* stable, so opportunities of equal lockedProfit keep the order they were found in.
RECURSIVE InsertRanked(_, _)
InsertRanked(sorted, opportunity) ==
    IF sorted = <<>> THEN <<opportunity>>
    ELSE IF sorted[1].lockedProfit >= opportunity.lockedProfit
         THEN <<sorted[1]>> \o InsertRanked(Tail(sorted), opportunity)
         ELSE <<opportunity>> \o sorted

RECURSIVE RankLoop(_, _, _)
RankLoop(opportunities, i, sorted) ==
    IF i > Len(opportunities) THEN sorted
    ELSE RankLoop(opportunities, i + 1, InsertRanked(sorted, opportunities[i]))

RankOpportunities(opportunities) == RankLoop(opportunities, 1, <<>>)

\* maxProfitPick: the head of the ranked list, <<>> standing for null.
MaxProfitPickOf(rankedOpportunities) ==
    IF Len(rankedOpportunities) > 0 THEN <<rankedOpportunities[1]>> ELSE <<>>

\* rankedOpportunities.slice(0, 10).
Top10(rankedOpportunities) ==
    IF Len(rankedOpportunities) > 10 THEN SubSeq(rankedOpportunities, 1, 10) ELSE rankedOpportunities

\* storage.createArbitrageOpportunity as step 5 calls it: one inserted row.
\* expectedProfitPct decimal(5, 2) is in hundredths of a percent, createdAt
\* defaults to now and expiresAt is now + 5 * 60 * 1000 ms, both in seconds here.
\* recommendedStakes is Object.fromEntries over [leg.sportsbook, leg.stake]: keyed
\* by sportsbook, a later leg of the same sportsbook overwriting an earlier one.
createArbitrageOpportunity(rows, maxProfitPick, now) ==
    Append(rows, [expectedProfitPct |-> maxProfitPick.profitPct,
                  recommendedStakes |-> [b \in {maxProfitPick.legs[k].sportsbook : k \in 1..Len(maxProfitPick.legs)} |->
                      LET last == CHOOSE k \in 1..Len(maxProfitPick.legs) :
                                      /\ maxProfitPick.legs[k].sportsbook = b
                                      /\ \A m \in 1..Len(maxProfitPick.legs) : maxProfitPick.legs[m].sportsbook = b => m <= k
                      IN maxProfitPick.legs[last].stake],
                  validityWindow |-> 300,
                  createdAt |-> now,
                  expiresAt |-> now + (5 * 60 * 1000) \div 1000])

\* Step 5: only maxProfitPick is stored.
StoreResults(rows, maxProfitPick, now) ==
    IF maxProfitPick = <<>> THEN rows ELSE createArbitrageOpportunity(rows, maxProfitPick[1], now)

\* storage.deleteExpiredArbitrageOpportunities: the rows with expiresAt <= now are deleted.
deleteExpiredArbitrageOpportunities(rows, now) == SelectSeq(rows, LAMBDA row : ~(row.expiresAt <= now))

\* orderBy(desc(expectedProfitPct)): rows of equal profit are kept in insertion order here.
RECURSIVE InsertByProfit(_, _)
InsertByProfit(sorted, row) ==
    IF sorted = <<>> THEN <<row>>
    ELSE IF sorted[1].expectedProfitPct >= row.expectedProfitPct
         THEN <<sorted[1]>> \o InsertByProfit(Tail(sorted), row)
         ELSE <<row>> \o sorted

RECURSIVE OrderByProfit(_, _, _)
OrderByProfit(rows, i, sorted) ==
    IF i > Len(rows) THEN sorted ELSE OrderByProfit(rows, i + 1, InsertByProfit(sorted, rows[i]))

\* storage.getArbitrageOpportunities: minProfit, in hundredths of a percent, is the
\* only filter that is applied (<<>> when the request gives none).
getArbitrageOpportunities(rows, minProfit) ==
    OrderByProfit(IF minProfit = <<>> THEN rows
                  ELSE SelectSeq(rows, LAMBDA row : row.expectedProfitPct >= minProfit[1]), 1, <<>>)

\* A price as a quote's priceValue column decimal(10, 4) holds it and parseFloat
\* reads it back: rounded to four places.
ToDecimal4(r) == Rat(MathRound(RatMul(r, <<10000, 1>>)), 10000)

\* The quotes of a market as detectArbitrage receives them: one row per outcome
\* and bookmaker, the price in decimal.
RECURSIVE Flatten(_)
Flatten(seqs) == IF Len(seqs) = 0 THEN <<>> ELSE seqs[1] \o Flatten(Tail(seqs))

QuotesOf(mkt) ==
    Flatten([i \in 1..Len(mkt.outcomes) |->
        [j \in 1..Len(mkt.outcomes[i].bookmakers) |->
            [outcomeId |-> mkt.outcomes[i].name, sportsbookId |-> mkt.outcomes[i].bookmakers[j].key, priceValue |-> ToDecimal4(convertAmericanToDecimal(mkt.outcomes[i].bookmakers[j].price))]]])

\* Object.keys(outcomeGroups): the outcome ids in the order of their first quote.
OutcomeIdsOf(quotes) == Dedup([i \in 1..Len(quotes) |-> quotes[i].outcomeId])

\* quotes.reduce over one outcome's group: a strictly higher price replaces the best.
RECURSIVE BestQuoteLoop(_, _, _)
BestQuoteLoop(group, i, best) ==
    IF i > Len(group) THEN best
    ELSE BestQuoteLoop(group, i + 1, IF RatLess(best.priceValue, group[i].priceValue) THEN group[i] ELSE best)

BestOdds(quotes) ==
    LET outcomes == OutcomeIdsOf(quotes)
    IN [k \in 1..Len(outcomes) |->
          LET group == SelectSeq(quotes, LAMBDA q : q.outcomeId = outcomes[k])
          IN BestQuoteLoop(group, 2, group[1])]

\* detectArbitrage: <<>> for null, or the calculation in a one-element sequence.  expectedProfitPct is a rational
\* number of percent; recommendedStakes is keyed by sportsbook, a later leg of the
\* same sportsbook overwriting an earlier one.
detectArbitrage(quotes) ==
    IF Len(quotes) < 2 \/ Len(OutcomeIdsOf(quotes)) < 2 THEN <<>>
    ELSE LET bestOdds == BestOdds(quotes)
             impliedProbabilities == [k \in 1..Len(bestOdds) |-> RatDiv(<<1, 1>>, bestOdds[k].priceValue)]
             totalImpliedProb == RatSum(impliedProbabilities)
             legs == [k \in 1..Len(bestOdds) |->
                        [sportsbookId |-> bestOdds[k].sportsbookId,
                         outcomeId |-> bestOdds[k].outcomeId,
                         priceValue |-> bestOdds[k].priceValue,
                         stakeFraction |-> StakeFraction(bestOdds[k].priceValue, totalImpliedProb)]]
         IN IF RatLeq(<<1, 1>>, totalImpliedProb) THEN <<>>
            ELSE <<[legs |-> legs,
                  expectedProfitPct |-> RatMul(<<100, 1>>, RatSub(<<1, 1>>, totalImpliedProb)),
                  recommendedStakes |-> [b \in {legs[k].sportsbookId : k \in 1..Len(legs)} |->
                      LET last == CHOOSE k \in 1..Len(legs) : legs[k].sportsbookId = b /\ \A m \in 1..Len(legs) : legs[m].sportsbookId = b => m <= k
                      IN MathRound(RatMul(<<Bankroll, 1>>, legs[last].stakeFraction))]]>>

OutcomeNames == <<"outcome_0", "outcome_1", "outcome_2", "outcome_3">>

\* One outcome's bookmaker rows: each bookmaker at most once, in the provider's order.
BookmakerRows == {<<>>} \cup {<<[key |-> b, price |-> p]>> : b \in Books, p \in AmericanOdds} \cup {<<[key |-> "draftkings", price |-> p], [key |-> "fanduel", price |-> q]>> : p, q \in AmericanOdds}

MinProfitPcts == {1000, 33333}

NoMarket == [outcomes |-> <<>>]

NoResult == [called |-> FALSE, result |-> <<>>]

NotCalled == ~calculated.called /\ ~detected.called

\* The provider's data for a market arrives outcome by outcome.
AddOutcome(rows) ==
    /\ NotCalled
    /\ Len(market.outcomes) < MaxOutcomes
    /\ market' = [outcomes |-> Append(market.outcomes, [name |-> OutcomeNames[Len(market.outcomes) + 1], bookmakers |-> rows])]
    /\ UNCHANGED <<stateMap, filterVars, systemVars, hedgeVars, rankVars, ingestVars, serviceVars, minProfitPct, calculated, detected>>

\* A caller hands the market and a threshold to calculateArbitrageOpportunities.
Calculate(minPct) ==
    /\ ~calculated.called
    /\ Len(market.outcomes) >= 2
    /\ minProfitPct' = minPct
    /\ calculated' = [called |-> TRUE, result |-> calculateArbitrageOpportunities(<<market>>, minPct)]
    /\ UNCHANGED <<stateMap, filterVars, systemVars, hedgeVars, rankVars, ingestVars, serviceVars, market, detected>>

\* A caller hands the market's quotes to detectArbitrage.
Detect ==
    /\ ~detected.called
    /\ Len(market.outcomes) >= 2
    /\ detected' = [called |-> TRUE, result |-> detectArbitrage(QuotesOf(market))]
    /\ UNCHANGED <<stateMap, filterVars, systemVars, hedgeVars, rankVars, ingestVars, serviceVars, market, minProfitPct, calculated>>

(***************************************************************************)
(* The job_runs table (storage.createJobRun / updateJobRun / getJobRuns).  *)
(* A run's id is its index.  updates counts the updateJobRun writes a row  *)
(* has received.  The job-run writes themselves are taken to succeed: the  *)
(* table is the durable record the handlers report to.                     *)
(***************************************************************************)
createJobRun(runs, jobName, status) ==
    Append(runs, [jobName |-> jobName, status |-> status, errorSummary |-> FALSE, updates |-> 0])

updateJobRun(runs, id, status, errorSummary) ==
    [runs EXCEPT ![id] = [@ EXCEPT !.status = status, !.errorSummary = errorSummary, !.updates = @ + 1]]

(***************************************************************************)
(* 4.5 Scheduler: JobScheduler.jobs and runJob, and the handlers.          *)
(* Each action is one stretch of a handler between two awaits that other   *)
(* requests can interleave with.  A handler's work (storage reads, the     *)
(* provider) either succeeds or throws; the choice is an input.            *)
(***************************************************************************)
MaxCalls == 2        \* requests (runJob calls and scans) in one behaviour
MaxLeagues == 1      \* leagues the poller passes to fetchOdds (the code caps it at 3)

JobNames == {"odds_prematch_poller", "odds_live_poller", "arbitrage_indexer", "hedge_monitor", "cleanup_expired"}

RunJobInputs == JobNames \cup {"no_such_job"}

CallIds == 1..MaxCalls

SportKeys == <<"basketball_nba", "americanfootball_nfl", "baseball_mlb", "icehockey_nhl">>

\* fetchFromOddsAPI's credit tracking before any response: used 0, remaining 500.
DefaultCredit == [used |-> 0, remaining |-> 500]

\* request holds the optional fields of a scan's body (<<>> for a field that is
\* absent), credit fetchFromOddsAPI's totalCreditsUsed / remainingCredits,
\* creditUsage what the scan returns (<<>> before), estimate what an estimate
\* returns, comprehensiveData where the odds rows the scan returns come from
\* ("provider": processAndStoreOddsData, "mock": convertMockToComprehensiveFormat;
\* the rows carry no other mark of their origin).  reported is bookkeeping of the model: the usage the provider's
\* last response carried in its headers.
NoCall == [pc |-> "idle", kind |-> "none", jobName |-> "", run |-> 0, fetchRun |-> 0, works |-> 0, states |-> <<>>, sports |-> <<>>, eligible |-> <<>>, listed |-> {}, results |-> <<>>, stored |-> 0, source |-> "none",
           request |-> [sports |-> <<>>, regions |-> <<>>, confirmed |-> "absent"],
           credit |-> DefaultCredit, reported |-> <<>>, creditUsage |-> <<>>, processed |-> 0, estimate |-> <<>>,
           comprehensiveData |-> "none"]

\* Requests are numbered in their order of arrival.
Arrives(c) == calls[c].pc = "idle" /\ \A d \in 1..(c - 1) : calls[d].pc # "idle"

At(c, kind, pc) == calls[c].kind = kind /\ calls[c].pc = pc

\* The handler JobScheduler.jobs registers for a job name.
JobHandler(jobName) ==
    CASE jobName \in {"odds_prematch_poller", "odds_live_poller"} -> "runOddsPolling"
      [] jobName = "arbitrage_indexer" -> "recalculateArbitrage"
      [] jobName = "hedge_monitor" -> "runHedgeMonitoring"
      [] jobName = "cleanup_expired" -> "runCleanup"
      [] OTHER -> "none"

AtHandler(c, handler, pc) == At(c, "job", pc) /\ JobHandler(calls[c].jobName) = handler

\* POST /api/jobs/:name:run -> runJob: find the job (throw when there is none),
\* log the trigger, then call the handler.
runJob(c, jobName) ==
    /\ Arrives(c)
    /\ calls' = [calls EXCEPT ![c] = [@ EXCEPT !.kind = "job", !.jobName = jobName, !.pc = IF jobName \in JobNames THEN "handler" ELSE "thrown"]]
    /\ UNCHANGED <<stateMap, filterVars, detectVars, hedgeVars, rankVars, ingestVars, serviceVars, apiKey, jobRuns>>

\* The handler's first await: the job run is created with status "running".
HandlerCreatesRun(c, handler, jobName, pc) ==
    /\ AtHandler(c, handler, "handler")
    /\ jobRuns' = createJobRun(jobRuns, jobName, "running")
    /\ calls' = [calls EXCEPT ![c] = [@ EXCEPT !.run = Len(jobRuns) + 1, !.pc = pc]]
    /\ UNCHANGED <<stateMap, filterVars, detectVars, hedgeVars, rankVars, ingestVars, serviceVars, apiKey>>

\* The end of a try block: the run is updated to "success" and the handler returns.
HandlerSucceeds(c) ==
    /\ jobRuns' = updateJobRun(jobRuns, calls[c].run, "success", FALSE)
    /\ calls' = [calls EXCEPT ![c] = [@ EXCEPT !.pc = "returned"]]

\* A catch block that throws the error again without recording the failure.
HandlerCatch_NoUpdate(c, handler, pc) ==
    /\ AtHandler(c, handler, pc)
    /\ calls' = [calls EXCEPT ![c] = [@ EXCEPT !.pc = "thrown"]]
    /\ UNCHANGED <<stateMap, filterVars, detectVars, hedgeVars, rankVars, ingestVars, serviceVars, apiKey, jobRuns>>

\* The catch block: the run is updated to "failed" with the error's message, and
\* the error is thrown again.
HandlerCatch(c, handler, pc) ==
    /\ AtHandler(c, handler, pc)
    /\ jobRuns' = updateJobRun(jobRuns, calls[c].run, "failed", TRUE)
    /\ calls' = [calls EXCEPT ![c] = [@ EXCEPT !.pc = "thrown"]]
    /\ UNCHANGED <<stateMap, filterVars, detectVars, hedgeVars, rankVars, ingestVars, serviceVars, apiKey>>

runOddsPollingStart(c) == HandlerCreatesRun(c, "runOddsPolling", calls[c].jobName, "poll_try")

\* getLeagues, then fetchOdds up to its own createJobRun: fetchOdds throws before
\* creating its run when no API key is configured.
runOddsPollingTry(c, leaguesOk, leagueIds) ==
    /\ AtHandler(c, "runOddsPolling", "poll_try")
    /\ IF leaguesOk /\ apiKey
       THEN /\ jobRuns' = createJobRun(jobRuns, "odds_fetch", "running")
            /\ calls' = [calls EXCEPT ![c] = [@ EXCEPT !.works = @ + 1, !.fetchRun = Len(jobRuns) + 1, !.sports = leagueIds, !.pc = "api_loop"]]
       ELSE /\ calls' = [calls EXCEPT ![c] = [@ EXCEPT !.works = @ + 1, !.pc = "poll_catch"]]
            /\ UNCHANGED jobRuns
    /\ UNCHANGED <<stateMap, filterVars, detectVars, hedgeVars, rankVars, ingestVars, serviceVars, apiKey>>

\* The usage the provider counts at its n-th request of a call.
ProviderUsage(n) == [used |-> n, remaining |-> 500 - n]

\* A loop that a failing request leaves: the error goes to the caller's catch.
fetchSport_AbortsOnFailure(c, ok, headers) ==
    /\ calls[c].pc = "api_loop"
    /\ Len(calls[c].results) < Len(calls[c].sports)
    /\ LET usage == ProviderUsage(Len(calls[c].results) + 1)
       IN calls' = [calls EXCEPT ![c] = [@ EXCEPT !.results = Append(@, IF ok THEN "ok" ELSE "failed"),
                                                 !.credit = IF ok /\ headers THEN usage ELSE @,
                                                 !.reported = IF headers THEN <<usage>> ELSE @,
                                                 !.pc = IF ok THEN @ ELSE IF calls[c].kind = "scan" THEN "scan_catch" ELSE "fetch_catch"]]
    /\ UNCHANGED <<stateMap, filterVars, detectVars, hedgeVars, rankVars, ingestVars, serviceVars, apiKey, jobRuns>>

\* fetchFromOddsAPI, one iteration of its loop over the sports: one provider
\* request, whose failure (no response, or a status that is not ok) is caught
\* inside the loop.  headers tells whether the response carried
\* x-requests-used and x-requests-remaining; they are read from an ok response only.
fetchSport(c, ok, headers) ==
    /\ calls[c].pc = "api_loop"
    /\ Len(calls[c].results) < Len(calls[c].sports)
    /\ LET usage == ProviderUsage(Len(calls[c].results) + 1)
       IN calls' = [calls EXCEPT ![c] = [@ EXCEPT !.results = Append(@, IF ok THEN "ok" ELSE "failed"),
                                                 !.credit = IF ok /\ headers THEN usage ELSE @,
                                                 !.reported = IF headers THEN <<usage>> ELSE @]]
    /\ UNCHANGED <<stateMap, filterVars, detectVars, hedgeVars, rankVars, ingestVars, serviceVars, apiKey, jobRuns>>

OkCount(results) == Cardinality({i \in 1..Len(results) : results[i] = "ok"})

\* fetchOdds after the provider loop: processOddsData and createCostRecord, then
\* the fetch run is updated to "success"; a storage error goes to its catch.
fetchOddsFinish(c, storeOk) ==
    /\ AtHandler(c, "runOddsPolling", "api_loop")
    /\ Len(calls[c].results) = Len(calls[c].sports)
    /\ IF storeOk
       THEN /\ jobRuns' = updateJobRun(jobRuns, calls[c].fetchRun, "success", FALSE)
            /\ calls' = [calls EXCEPT ![c] = [@ EXCEPT !.stored = OkCount(calls[c].results) * Cardinality(Books), !.source = "provider", !.pc = "poll_finish"]]
       ELSE /\ calls' = [calls EXCEPT ![c] = [@ EXCEPT !.pc = "fetch_catch"]]
            /\ UNCHANGED jobRuns
    /\ UNCHANGED <<stateMap, filterVars, detectVars, hedgeVars, rankVars, ingestVars, serviceVars, apiKey>>

fetchOddsCatch(c) ==
    /\ AtHandler(c, "runOddsPolling", "fetch_catch")
    /\ jobRuns' = updateJobRun(jobRuns, calls[c].fetchRun, "failed", TRUE)
    /\ calls' = [calls EXCEPT ![c] = [@ EXCEPT !.pc = "poll_catch"]]
    /\ UNCHANGED <<stateMap, filterVars, detectVars, hedgeVars, rankVars, ingestVars, serviceVars, apiKey>>

runOddsPollingFinish(c) ==
    /\ AtHandler(c, "runOddsPolling", "poll_finish")
    /\ HandlerSucceeds(c)
    /\ UNCHANGED <<stateMap, filterVars, detectVars, hedgeVars, rankVars, ingestVars, serviceVars, apiKey>>

runOddsPollingCatch(c) == HandlerCatch(c, "runOddsPolling", "poll_catch")

\* recalculateArbitrage: the run is created under the name "arbitrage_recalc",
\* already with status "success", and then updated to "success".
recalculateArbitrageStart(c) ==
    /\ AtHandler(c, "recalculateArbitrage", "handler")
    /\ jobRuns' = createJobRun(jobRuns, "arbitrage_recalc", "success")
    /\ calls' = [calls EXCEPT ![c] = [@ EXCEPT !.run = Len(jobRuns) + 1, !.pc = "recalc_update"]]
    /\ UNCHANGED <<stateMap, filterVars, detectVars, hedgeVars, rankVars, ingestVars, serviceVars, apiKey>>

recalculateArbitrageFinish(c) ==
    /\ AtHandler(c, "recalculateArbitrage", "recalc_update")
    /\ HandlerSucceeds(c)
    /\ UNCHANGED <<stateMap, filterVars, detectVars, hedgeVars, rankVars, ingestVars, serviceVars, apiKey>>

runHedgeMonitoringStart(c) == HandlerCreatesRun(c, "runHedgeMonitoring", "hedge_monitor", "hedge_try")

\* getUserBets and the loop over the tracked bets (an error of one bet is caught
\* in the loop), then the update to "success"; an error of getUserBets goes to
\* the catch.
runHedgeMonitoringTry(c, ok) ==
    /\ AtHandler(c, "runHedgeMonitoring", "hedge_try")
    /\ IF ok
       THEN /\ jobRuns' = updateJobRun(jobRuns, calls[c].run, "success", FALSE)
            /\ calls' = [calls EXCEPT ![c] = [@ EXCEPT !.works = @ + 1, !.pc = "returned"]]
       ELSE /\ calls' = [calls EXCEPT ![c] = [@ EXCEPT !.works = @ + 1, !.pc = "hedge_catch"]]
            /\ UNCHANGED jobRuns
    /\ UNCHANGED <<stateMap, filterVars, detectVars, hedgeVars, rankVars, ingestVars, serviceVars, apiKey>>

runHedgeMonitoringCatch(c) == HandlerCatch(c, "runHedgeMonitoring", "hedge_catch")

runCleanupStart(c) == HandlerCreatesRun(c, "runCleanup", "cleanup_expired", "cleanup_try")

\* deleteExpiredArbitrageOpportunities, then the update to "success".
runCleanupTry(c, ok) ==
    /\ AtHandler(c, "runCleanup", "cleanup_try")
    /\ IF ok
       THEN /\ arbRows' = deleteExpiredArbitrageOpportunities(arbRows, clock)
            /\ jobRuns' = updateJobRun(jobRuns, calls[c].run, "success", FALSE)
            /\ calls' = [calls EXCEPT ![c] = [@ EXCEPT !.works = @ + 1, !.pc = "returned"]]
       ELSE /\ calls' = [calls EXCEPT ![c] = [@ EXCEPT !.works = @ + 1, !.pc = "cleanup_catch"]]
            /\ UNCHANGED <<jobRuns, arbRows>>
    /\ UNCHANGED <<stateMap, filterVars, detectVars, hedgeVars, ingestVars, serviceVars, apiKey, oddsData, clock, ranking>>

runCleanupCatch(c) == HandlerCatch(c, "runCleanup", "cleanup_catch")

\* getJobStatuses: a job's lastRun is the latest run (by startedAt) carrying the
\* job's name; 0 stands for undefined.
getJobStatuses(runs, jobName) ==
    LET mine == {i \in 1..Len(runs) : runs[i].jobName = jobName}
    IN IF mine = {} THEN 0 ELSE CHOOSE i \in mine : \A j \in mine : j <= i

(***************************************************************************)
(* 4.1 - 4.3 The scan: POST /api/scan/arbs and scanArbitrageOpportunities. *)
(* listed records the bookmakers listed in every requested state when the  *)
(* filter ran, results the provider requests issued, stored the quotes     *)
(* written.                                                                *)
(***************************************************************************)
ScanStateLists == {<<>>, <<"CA">>, <<"CA", "NJ">>}

\* The state maps an admin installs while scans run.
ScanStateMaps ==
    {DefaultStateMap,
     <<[state |-> "CA", bookmakers |-> <<"draftkings">>]>>,
     <<[state |-> "CA", bookmakers |-> <<"draftkings">>], [state |-> "NJ", bookmakers |-> <<"fanduel">>]>>}

\* getMockArbitrageData: one moneyline market, its bookmakers filtered to the eligible ones.
getMockArbitrageData(eligibleBookmakers) ==
    LET eligible(rows) == SelectSeq(rows, LAMBDA book : Includes(eligibleBookmakers, book.key))
    IN <<[outcomes |->
            <<[name |-> "Golden State Warriors",
               bookmakers |-> eligible(<<[key |-> "fanduel", price |-> -110], [key |-> "draftkings", price |-> -105], [key |-> "caesars", price |-> -115]>>)],
              [name |-> "Los Angeles Lakers",
               bookmakers |-> eligible(<<[key |-> "fanduel", price |-> 105], [key |-> "draftkings", price |-> 110], [key |-> "caesars", price |-> 100]>>)]>>]>>

\* A route that calls the scan whatever confirmed is.
scanRoute_WithoutConfirmation(c, states, sports, regions, confirmed) ==
    /\ Arrives(c)
    /\ calls' = [calls EXCEPT ![c] = [@ EXCEPT !.kind = "scan", !.states = states,
                                              !.request = [sports |-> sports, regions |-> regions, confirmed |-> confirmed],
                                              !.pc = IF Len(states) >= 1 THEN "scan_start" ELSE "rejected"]]
    /\ UNCHANGED <<stateMap, filterVars, detectVars, hedgeVars, rankVars, ingestVars, serviceVars, apiKey, jobRuns>>

\* The route: the request is parsed (states must hold at least one entry and
\* confirmed must be the boolean true, else 400) before the scan is called.
scanRoute(c, states, sports, regions, confirmed) ==
    /\ Arrives(c)
    /\ calls' = [calls EXCEPT ![c] = [@ EXCEPT !.kind = "scan", !.states = states,
                                              !.request = [sports |-> sports, regions |-> regions, confirmed |-> confirmed],
                                              !.pc = IF Len(states) >= 1 /\ confirmed = "true" THEN "scan_start" ELSE "rejected"]]
    /\ UNCHANGED <<stateMap, filterVars, detectVars, hedgeVars, rankVars, ingestVars, serviceVars, apiKey, jobRuns>>

\* The scan's first await: the job run "arbitrage_scan" is created as "running".
scanStart(c) ==
    /\ At(c, "scan", "scan_start")
    /\ jobRuns' = createJobRun(jobRuns, "arbitrage_scan", "running")
    /\ calls' = [calls EXCEPT ![c] = [@ EXCEPT !.run = Len(jobRuns) + 1, !.pc = "scan_filter"]]
    /\ UNCHANGED <<stateMap, filterVars, detectVars, hedgeVars, rankVars, ingestVars, serviceVars, apiKey>>

\* Step 1 and the entry of fetchAndStoreOddsData: the filter (an empty result is
\* thrown), the sports of the request (basketball_nba when it names none), and
\* fetchFromOddsAPI's key test, whose error falls back to the mock data.
scanFilter(c) ==
    /\ At(c, "scan", "scan_filter")
    /\ LET eligibleBookmakers == filterBookmakersByStates(stateMap, calls[c].states)
           listed == {b \in Books : \A st \in ToSet(calls[c].states) : \E i \in 1..Len(stateMap) : stateMap[i].state = st /\ Includes(stateMap[i].bookmakers, b)}
           pc == IF Len(eligibleBookmakers) = 0 THEN "scan_catch" ELSE IF apiKey THEN "api_loop" ELSE "scan_calc"
           sports == IF calls[c].request.sports = <<>> THEN <<"basketball_nba">>
                     ELSE IF Includes(calls[c].request.sports[1], "all") THEN SportKeys
                     ELSE calls[c].request.sports[1]
       IN calls' = [calls EXCEPT ![c] = [@ EXCEPT !.eligible = eligibleBookmakers, !.listed = listed, !.sports = sports,
                                                 !.source = IF pc = "scan_calc" THEN "mock" ELSE @,
                                                 !.creditUsage = IF pc = "scan_calc" THEN <<DefaultCredit>> ELSE @,
                                                 !.comprehensiveData = IF pc = "scan_calc" THEN "mock" ELSE @,
                                                 !.pc = pc]]
    /\ UNCHANGED <<stateMap, filterVars, detectVars, hedgeVars, rankVars, ingestVars, serviceVars, apiKey, jobRuns>>

\* processAndStoreOddsData and the read back of the stored quotes: an event that
\* fails to store is skipped, a failing read falls back to the mock data, and
\* convertToArbitrageFormat returns nothing, so the mock data is used either way.
\* The credit usage is fetchFromOddsAPI's, except in the fallback of the failing
\* read, which returns used 0 and remaining 500.
scanStore(c, storeOk) ==
    /\ At(c, "scan", "api_loop")
    /\ Len(calls[c].results) = Len(calls[c].sports)
    /\ calls' = [calls EXCEPT ![c] = [@ EXCEPT !.processed = OkCount(calls[c].results),
                                              !.stored = IF storeOk THEN OkCount(calls[c].results) * Len(calls[c].eligible) ELSE 0,
                                              !.creditUsage = IF storeOk THEN <<calls[c].credit>> ELSE <<DefaultCredit>>,
                                              !.comprehensiveData = IF storeOk THEN "provider" ELSE "mock",
                                              !.source = "mock", !.pc = "scan_calc"]]
    /\ UNCHANGED <<stateMap, filterVars, detectVars, hedgeVars, rankVars, ingestVars, serviceVars, apiKey, jobRuns>>

\* Steps 3 - 5: the opportunities are calculated with minProfitPct 1.0 and ranked,
\* the best one is stored (a storage error goes to the catch), and the run is
\* updated to "success".
scanFinish(c, persistOk) ==
    /\ At(c, "scan", "scan_calc")
    /\ LET opportunities == calculateArbitrageOpportunities(getMockArbitrageData(calls[c].eligible), 1000)
           rankedOpportunities == RankOpportunities(opportunities)
           maxProfitPick == MaxProfitPickOf(rankedOpportunities)
       IN IF maxProfitPick = <<>> \/ persistOk
          THEN /\ arbRows' = StoreResults(arbRows, maxProfitPick, clock)
               /\ jobRuns' = updateJobRun(jobRuns, calls[c].run, "success", FALSE)
               /\ calls' = [calls EXCEPT ![c] = [@ EXCEPT !.works = @ + 1, !.pc = "returned"]]
          ELSE /\ calls' = [calls EXCEPT ![c] = [@ EXCEPT !.works = @ + 1, !.pc = "scan_catch"]]
               /\ UNCHANGED <<jobRuns, arbRows>>
    /\ UNCHANGED <<stateMap, filterVars, detectVars, hedgeVars, ingestVars, serviceVars, oddsData, clock, ranking, apiKey>>

\* The scan's catch block: the run is updated to "failed" and the error thrown
\* again; the route answers 500.
scanCatch(c) ==
    /\ At(c, "scan", "scan_catch")
    /\ jobRuns' = updateJobRun(jobRuns, calls[c].run, "failed", TRUE)
    /\ calls' = [calls EXCEPT ![c] = [@ EXCEPT !.pc = "thrown"]]
    /\ UNCHANGED <<stateMap, filterVars, detectVars, hedgeVars, rankVars, ingestVars, serviceVars, apiKey>>

(***************************************************************************)
(* POST /api/estimate and estimateAPIUsage.  An optional field of the body *)
(* is <<>> when absent and <<list>> when given.                            *)
(***************************************************************************)
SportsInputs == {<<>>, <<<<"all">>>>, <<<<"basketball_nba">>>>, <<<<"basketball_nba", "baseball_mlb">>>>}

RegionInputs == {<<>>, <<<<"us">>>>}

ConfirmedInputs == {"absent", "false", "true"}

\* A total that leaves the sports enumeration request out.
estimateAPIUsage_TotalWithoutEnumeration(map, states, sports, regions) ==
    LET sportList == IF sports = <<>> THEN <<"all">> ELSE sports[1]
        regionList == IF regions = <<>> THEN <<"us", "us2">> ELSE regions[1]
        selectedSports == IF Includes(sportList, "all")
                          THEN <<"americanfootball_nfl", "basketball_nba", "baseball_mlb", "icehockey_nhl", "soccer_epl">>
                          ELSE sportList
        liveUpcomingRequests == Len(selectedSports) * Len(regionList)
    IN [endpoints |-> (IF Includes(sportList, "all") THEN <<[name |-> "Sports Enumeration", estimatedRequests |-> 1]>> ELSE <<>>)
                      \o <<[name |-> "Live & Upcoming Odds", estimatedRequests |-> liveUpcomingRequests],
                           [name |-> "Event Details (on-demand)", estimatedRequests |-> 0],
                           [name |-> "Historical Data (feature flag)", estimatedRequests |-> 0]>>,
        selectedSports |-> selectedSports,
        totalEstimatedRequests |-> liveUpcomingRequests,
        estimatedCreditUsage |-> liveUpcomingRequests * 1,
        eligibleBookmakers |-> Len(filterBookmakersByStates(map, states))]

\* estimateAPIUsage for a request with at least one state: sports defaults to
\* ["all"] and regions to ["us", "us2"]; totalRequests is raised as each
\* endpoint with requests is listed.  selectedSports is the list the count of
\* the live requests is taken from.
estimateAPIUsage(map, states, sports, regions) ==
    LET sportList == IF sports = <<>> THEN <<"all">> ELSE sports[1]
        regionList == IF regions = <<>> THEN <<"us", "us2">> ELSE regions[1]
        enumeration == IF Includes(sportList, "all") THEN 1 ELSE 0
        selectedSports == IF Includes(sportList, "all")
                          THEN <<"americanfootball_nfl", "basketball_nba", "baseball_mlb", "icehockey_nhl", "soccer_epl">>
                          ELSE sportList
        liveUpcomingRequests == Len(selectedSports) * Len(regionList)
        totalRequests == enumeration + liveUpcomingRequests
    IN [endpoints |-> (IF Includes(sportList, "all") THEN <<[name |-> "Sports Enumeration", estimatedRequests |-> 1]>> ELSE <<>>)
                      \o <<[name |-> "Live & Upcoming Odds", estimatedRequests |-> liveUpcomingRequests],
                           [name |-> "Event Details (on-demand)", estimatedRequests |-> 0],
                           [name |-> "Historical Data (feature flag)", estimatedRequests |-> 0]>>,
        selectedSports |-> selectedSports,
        totalEstimatedRequests |-> totalRequests,
        estimatedCreditUsage |-> totalRequests * 1,
        eligibleBookmakers |-> Len(filterBookmakersByStates(map, states))]

\* The route: the body is parsed (states must hold at least one entry, else
\* 400), the audit entry is logged and the estimate is returned.
estimateRoute(c, states, sports, regions) ==
    /\ Arrives(c)
    /\ calls' = [calls EXCEPT ![c] = [@ EXCEPT !.kind = "estimate", !.states = states,
                                              !.request = [sports |-> sports, regions |-> regions, confirmed |-> "absent"],
                                              !.estimate = IF Len(states) >= 1 THEN <<estimateAPIUsage(stateMap, states, sports, regions)>> ELSE <<>>,
                                              !.pc = IF Len(states) >= 1 THEN "returned" ELSE "rejected"]]
    /\ UNCHANGED <<stateMap, filterVars, detectVars, hedgeVars, rankVars, ingestVars, serviceVars, apiKey, jobRuns>>

(***************************************************************************)
(* Steps 3 - 5 of scanArbitrageOpportunities over the markets step 2 hands  *)
(* them: calculate with minProfitPct 1.0, rank, pick, store.  Each market   *)
(* has two outcomes, priced by one bookmaker each.                         *)
(***************************************************************************)
MaxMarkets == 3      \* markets in the odds data
MaxScans == 2        \* scans that run steps 3 - 5
MaxClock == 2        \* the clock advances from the times before this one, in seconds

\* The American prices of a market's two outcomes.  -269 / +299 and -238 / +263
\* both lock 208.00 on the bankroll, at different unrounded profits.
MarketPrices == {<<-269, 299>>, <<-238, 263>>, <<-200, 300>>, <<-110, 104>>}

NoRanking == [called |-> FALSE, returned |-> FALSE, rankedOpportunities |-> <<>>, maxProfitPick |-> <<>>, before |-> <<>>, scans |-> 0]

\* The odds data gains a market.
AddMarket(prices) ==
    /\ Len(oddsData) < MaxMarkets
    /\ oddsData' = Append(oddsData, [outcomes |-> <<[name |-> "outcome_0", bookmakers |-> <<[key |-> "draftkings", price |-> prices[1]]>>],
                                                    [name |-> "outcome_1", bookmakers |-> <<[key |-> "fanduel", price |-> prices[2]]>>]>>])
    /\ UNCHANGED <<stateMap, filterVars, systemVars, detectVars, hedgeVars, ingestVars, serviceVars, arbRows, clock, ranking>>

\* The times that pass between two requests, in seconds: a second, or six
\* minutes (longer than the five minutes an opportunity is valid for).
ElapsedSeconds == {1, 6 * 60}

\* Time passes.
Tick(seconds) ==
    /\ clock < MaxClock
    /\ clock' = clock + seconds
    /\ UNCHANGED <<stateMap, filterVars, systemVars, detectVars, hedgeVars, ingestVars, serviceVars, oddsData, arbRows, ranking>>

\* Steps 3 - 5 and the return: a storage error in step 5 is thrown to the caller.
RankAndStore(persistOk) ==
    /\ ranking.scans < MaxScans
    /\ Len(oddsData) >= 1
    /\ LET opportunities == calculateArbitrageOpportunities(oddsData, 1000)
           rankedOpportunities == RankOpportunities(opportunities)
           maxProfitPick == MaxProfitPickOf(rankedOpportunities)
       IN IF maxProfitPick = <<>> \/ persistOk
          THEN /\ arbRows' = StoreResults(arbRows, maxProfitPick, clock)
               /\ ranking' = [called |-> TRUE, returned |-> TRUE, rankedOpportunities |-> Top10(rankedOpportunities),
                              maxProfitPick |-> maxProfitPick, before |-> arbRows, scans |-> ranking.scans + 1]
          ELSE /\ ranking' = [NoRanking EXCEPT !.called = TRUE, !.before = arbRows, !.scans = ranking.scans + 1]
               /\ UNCHANGED arbRows
    /\ UNCHANGED <<stateMap, filterVars, systemVars, detectVars, hedgeVars, ingestVars, serviceVars, oddsData, clock>>

\* The min_profit of a GET /api/arbs request: none, or 4.00%.
MinProfitInputs == {<<>>, <<400>>}

NoArbsResponse == [returned |-> FALSE, at |-> 0, rows |-> <<>>]

\* GET /api/arbs: the opportunities of the table are returned.
getArbs(minProfit) ==
    /\ arbsResponse' = [returned |-> TRUE, at |-> clock, rows |-> getArbitrageOpportunities(arbRows, minProfit)]
    /\ UNCHANGED <<stateMap, filterVars, systemVars, detectVars, hedgeVars, rankVars, ingestVars, monitorRun, trackRequest, flagVars>>

\* The cleanup_expired job's deletion (the job is scheduled every six hours).
runCleanup ==
    /\ arbRows' = deleteExpiredArbitrageOpportunities(arbRows, clock)
    /\ UNCHANGED <<stateMap, filterVars, systemVars, detectVars, hedgeVars, ingestVars, serviceVars, oddsData, clock, ranking>>

(***************************************************************************)
(* processAndStoreOddsData on one event of the provider and the rest of    *)
(* fetchAndStoreOddsData.  The provider lists, per bookmaker, the outcomes  *)
(* of the h2h market in the bookmaker's own order, with decimal prices,     *)
(* held here in ten-thousandths.  priced is bookkeeping of the model: the  *)
(* provider outcome a quote was made from.                                 *)
(***************************************************************************)
MaxBookmakers == 2   \* bookmakers of the provider's event

ProviderBookmakers ==
    {[key |-> k, outcomes |-> <<[name |-> n[1], price |-> p[1]], [name |-> n[2], price |-> p[2]]>>] :
        k \in {"draftkings", "fanduel", "betmgm"},
        n \in {<<"Home", "Away">>, <<"Away", "Home">>},
        p \in {<<21000, 21000>>, <<15000, 30000>>}}

NoStoredMarket == [outcomes |-> <<>>]

NoScanResult == [stored |-> FALSE, returned |-> FALSE, rankedOpportunities |-> <<>>]

\* One bookmaker of the event: skipped unless eligible; the market is created
\* from the first stored bookmaker's outcomes, outcome_<index> labelled with the
\* outcome's name; one quote per outcome, its outcomeId the outcome's index in
\* this bookmaker's list.
StoreBookmaker(store, bookmaker, eligibleBookmakers) ==
    IF ~Includes(eligibleBookmakers, bookmaker.key) THEN store
    ELSE LET created == IF store.market.outcomes = <<>>
                        THEN [outcomes |-> [i \in 1..Len(bookmaker.outcomes) |-> [id |-> OutcomeNames[i], label |-> bookmaker.outcomes[i].name]]]
                        ELSE store.market
         IN [market |-> created,
             quotes |-> store.quotes \o [i \in 1..Len(bookmaker.outcomes) |->
                            [outcomeId |-> OutcomeNames[i], sportsbookId |-> bookmaker.key,
                             priceValue |-> bookmaker.outcomes[i].price, priced |-> bookmaker.outcomes[i].name]]]

RECURSIVE StoreBookmakers(_, _, _, _)
StoreBookmakers(store, bookmakers, i, eligibleBookmakers) ==
    IF i > Len(bookmakers) THEN store
    ELSE StoreBookmakers(StoreBookmaker(store, bookmakers[i], eligibleBookmakers), bookmakers, i + 1, eligibleBookmakers)

\* convertToArbitrageFormat: nothing, whatever is stored.
convertToArbitrageFormat(events, quotes, eligibleBookmakers) == <<>>

\* The provider's event gains a bookmaker.
ProviderLists(bookmaker) ==
    /\ ~scanResult.stored
    /\ Len(providerEvent) < MaxBookmakers
    /\ providerEvent' = Append(providerEvent, bookmaker)
    /\ UNCHANGED <<serviceVars, stateMap, filterVars, systemVars, detectVars, hedgeVars, rankVars, storedMarket, storedQuotes, scanResult>>

\* processAndStoreOddsData for the event, for a scan of the states given.
StoreOddsData(states) ==
    /\ ~scanResult.stored
    /\ Len(providerEvent) >= 1
    /\ LET store == StoreBookmakers([market |-> NoStoredMarket, quotes |-> <<>>], providerEvent, 1, filterBookmakersByStates(stateMap, states))
       IN /\ storedMarket' = store.market
          /\ storedQuotes' = store.quotes
    /\ scanResult' = [scanResult EXCEPT !.stored = TRUE]
    /\ UNCHANGED <<serviceVars, stateMap, filterVars, systemVars, detectVars, hedgeVars, rankVars, providerEvent>>

\* The stored quotes are read back and converted; as the conversion yields
\* nothing the mock data is taken, and steps 3 and 4 calculate and rank it.
CalculateFromStored(states) ==
    /\ scanResult.stored /\ ~scanResult.returned
    /\ LET eligibleBookmakers == filterBookmakersByStates(stateMap, states)
           converted == convertToArbitrageFormat(<<storedMarket>>, storedQuotes, eligibleBookmakers)
           opportunities == IF Len(converted) = 0 THEN getMockArbitrageData(eligibleBookmakers) ELSE converted
       IN scanResult' = [scanResult EXCEPT !.returned = TRUE,
                                           !.rankedOpportunities = Top10(RankOpportunities(calculateArbitrageOpportunities(opportunities, 1000)))]
    /\ UNCHANGED <<serviceVars, stateMap, filterVars, systemVars, detectVars, hedgeVars, rankVars, providerEvent, storedMarket, storedQuotes>>

(***************************************************************************)
(* 4.4 Hedge engine: HedgeService.  One bet ("bet_1", staked on outcome_0) *)
(* on one event.  stake is held in cents and prices in ten-thousandths, as *)
(* the columns decimal(12, 2) and decimal(10, 4) store them; parseFloat    *)
(* gives the exact value, and the arithmetic is done on exact rationals.   *)
(***************************************************************************)
MaxQuotes == 2       \* quotes of the bet's market

EventStatuses == {"scheduled", "live", "final"}

BetStakes == {100, 10000}

BetPrices == {20000, 30000}

QuotePrices == {15000, 20100, 40000}

QuoteOutcomes == {"outcome_0", "outcome_1", "outcome_2"}

\* req.user.claims.sub of the authenticated users.
UserIds == {"user_1", "user_2"}

NoBet == [exists |-> FALSE, userId |-> "", settlement |-> "pending", isTracked |-> FALSE, stake |-> 0, priceAtBet |-> 0, outcomeId |-> ""]

\* invoked: the bets the run called calculateHedgeSuggestion for.  due is
\* bookkeeping of the model: the bets that were tracked and pending when the run read the table.
NoMonitorRun == [status |-> "none", trackedBets |-> 0, hedgesCalculated |-> 0, invoked |-> {}, due |-> {}]

\* atWrite is bookkeeping of the model: what the tables held at the moment the
\* call wrote its suggestion (isTracked, the event's status, the market's quotes, the time).
NoHedgeCall == [pc |-> "idle", bet |-> NoBet, quotes |-> <<>>, returned |-> "none",
                atWrite |-> [isTracked |-> FALSE, eventStatus |-> "none", quotes |-> <<>>, at |-> 0]]

\* A value written to a decimal(12, 2) column: numeric rounds it to two places,
\* a half away from zero.  The result is in hundredths.
ToDecimal2(r) ==
    IF r[1] < 0 THEN 0 - MathRound(RatMul(<<0 - r[1], r[2]>>, <<100, 1>>)) ELSE MathRound(RatMul(r, <<100, 1>>))

\* opposingQuotes.reduce: the first quote is the start, a strictly higher price replaces the best.
RECURSIVE BestOpposingLoop(_, _, _)
BestOpposingLoop(opposingQuotes, i, best) ==
    IF i > Len(opposingQuotes) THEN best
    ELSE BestOpposingLoop(opposingQuotes, i + 1, IF opposingQuotes[i].priceValue > best.priceValue THEN opposingQuotes[i] ELSE best)

\* calculateHedge: <<>> stands for null.  The profits are in dollars.
calculateHedge(bet, marketQuotes) ==
    LET originalStake == Rat(bet.stake, 100)
        originalOdds == Rat(bet.priceAtBet, 10000)
        potentialReturn == RatMul(originalStake, originalOdds)
        opposingQuotes == SelectSeq(marketQuotes, LAMBDA quote : quote.outcomeId # bet.outcomeId)
    IN IF Len(opposingQuotes) = 0 THEN <<>>
       ELSE LET bestOpposingQuote == BestOpposingLoop(opposingQuotes, 2, opposingQuotes[1])
                hedgeOdds == Rat(bestOpposingQuote.priceValue, 10000)
                hedgeStake == RatDiv(potentialReturn, hedgeOdds)
                hedgeReturn == RatMul(hedgeStake, hedgeOdds)
                profitIfOriginalWins == RatSub(RatSub(potentialReturn, originalStake), hedgeStake)
                profitIfHedgeWins == RatSub(RatSub(hedgeReturn, originalStake), hedgeStake)
                lockedProfitLow == IF RatLess(profitIfHedgeWins, profitIfOriginalWins) THEN profitIfHedgeWins ELSE profitIfOriginalWins
                lockedProfitHigh == IF RatLess(profitIfOriginalWins, profitIfHedgeWins) THEN profitIfHedgeWins ELSE profitIfOriginalWins
            IN IF lockedProfitLow[1] <= 0 THEN <<>>
               ELSE <<[suggestedLegs |-> <<[sportsbookId |-> bestOpposingQuote.sportsbookId,
                                            outcomeId |-> bestOpposingQuote.outcomeId,
                                            priceValue |-> bestOpposingQuote.priceValue,
                                            stake |-> MathRound(hedgeStake)]>>,
                       lockedProfitLow |-> lockedProfitLow,
                       lockedProfitHigh |-> lockedProfitHigh]>>

\* storage.createHedgeSuggestion: the row as the table holds it.
createHedgeSuggestion(rows, userBetId, hedgeCalculation) ==
    Append(rows, [userBetId |-> userBetId,
                  suggestedLegs |-> hedgeCalculation.suggestedLegs,
                  lockedProfitLow |-> ToDecimal2(hedgeCalculation.lockedProfitLow),
                  lockedProfitHigh |-> ToDecimal2(hedgeCalculation.lockedProfitHigh)])

\* An event is stored with its status.
createEvent(status) ==
    /\ eventStatus = "none"
    /\ eventStatus' = status
    /\ UNCHANGED <<stateMap, filterVars, systemVars, detectVars, rankVars, ingestVars, serviceVars, userBet, betQuotes, monitoredBets, suggestions, hedgeCall>>

\* POST /api/bets: the bet is stored for the authenticated user, untracked and pending.
createUserBet(userId, stake, priceAtBet) ==
    /\ eventStatus # "none"
    /\ ~userBet.exists
    /\ userBet' = [exists |-> TRUE, userId |-> userId, settlement |-> "pending", isTracked |-> FALSE, stake |-> stake, priceAtBet |-> priceAtBet, outcomeId |-> "outcome_0"]
    /\ UNCHANGED <<stateMap, filterVars, systemVars, detectVars, rankVars, ingestVars, serviceVars, eventStatus, betQuotes, monitoredBets, suggestions, hedgeCall>>

\* storage.createQuote: a bookmaker's price for an outcome of the bet's market;
\* timestamp defaults to the time of the insertion.
createQuote(outcomeId, priceValue) ==
    /\ eventStatus # "none"
    /\ Len(betQuotes) < MaxQuotes
    /\ betQuotes' = Append(betQuotes, [outcomeId |-> outcomeId, sportsbookId |-> "draftkings", priceValue |-> priceValue, timestamp |-> clock])
    /\ UNCHANGED <<stateMap, filterVars, systemVars, detectVars, rankVars, ingestVars, serviceVars, eventStatus, userBet, monitoredBets, suggestions, hedgeCall>>

\* wasTracked: the bet's isTracked when the request arrived; calculated: monitorBet
\* went on to call calculateHedgeSuggestion.
NoTrackRequest == [answered |-> FALSE, wasTracked |-> FALSE, calculated |-> FALSE]

\* POST /api/bets/:betId/track up to monitorBet's call of calculateHedgeSuggestion:
\* the bet is marked tracked; a bet not monitored yet is added to monitoredBets
\* and its hedge suggestion is calculated.
trackBet ==
    /\ userBet.exists
    /\ hedgeCall.pc = "idle"
    /\ userBet' = [userBet EXCEPT !.isTracked = TRUE]
    /\ trackRequest' = [answered |-> TRUE, wasTracked |-> userBet.isTracked, calculated |-> ~("bet_1" \in monitoredBets)]
    /\ IF "bet_1" \in monitoredBets
       THEN UNCHANGED <<monitoredBets, hedgeCall>>
       ELSE /\ monitoredBets' = monitoredBets \cup {"bet_1"}
            /\ hedgeCall' = [NoHedgeCall EXCEPT !.pc = "get_bet"]
    /\ UNCHANGED <<stateMap, filterVars, systemVars, detectVars, rankVars, ingestVars, monitorRun, arbsResponse, flagVars, eventStatus, betQuotes, suggestions>>

\* POST /api/bets/:betId/untrack.
untrackBet ==
    /\ userBet.exists
    /\ userBet' = [userBet EXCEPT !.isTracked = FALSE]
    /\ UNCHANGED <<stateMap, filterVars, systemVars, detectVars, rankVars, ingestVars, serviceVars, eventStatus, betQuotes, monitoredBets, suggestions, hedgeCall>>

\* calculateHedgeSuggestion, getUserBet: null for a bet that is not tracked.
hedgeGetUserBet ==
    /\ hedgeCall.pc = "get_bet"
    /\ hedgeCall' = IF ~userBet.exists \/ ~userBet.isTracked
                    THEN [hedgeCall EXCEPT !.pc = "idle", !.returned = "null"]
                    ELSE [hedgeCall EXCEPT !.pc = "get_event", !.bet = userBet]
    /\ UNCHANGED <<stateMap, filterVars, systemVars, detectVars, rankVars, ingestVars, serviceVars, eventStatus, userBet, betQuotes, monitoredBets, suggestions>>

\* calculateHedgeSuggestion, getEvent: null unless the event is scheduled.
hedgeGetEvent ==
    /\ hedgeCall.pc = "get_event"
    /\ hedgeCall' = IF eventStatus # "scheduled"
                    THEN [hedgeCall EXCEPT !.pc = "idle", !.returned = "null"]
                    ELSE [hedgeCall EXCEPT !.pc = "get_quotes"]
    /\ UNCHANGED <<stateMap, filterVars, systemVars, detectVars, rankVars, ingestVars, serviceVars, eventStatus, userBet, betQuotes, monitoredBets, suggestions>>

\* storage.getQuotes: every quote of the market, orderBy(desc(quotes.timestamp)).
\* A later insertion has a later timestamp, so this is the reverse of the insertion order.
getQuotes(rows) == [i \in 1..Len(rows) |-> rows[Len(rows) + 1 - i]]

\* calculateHedgeSuggestion, getQuotes: null when the market has no quote.
hedgeGetQuotes ==
    /\ hedgeCall.pc = "get_quotes"
    /\ hedgeCall' = IF Len(betQuotes) = 0
                    THEN [hedgeCall EXCEPT !.pc = "idle", !.returned = "null"]
                    ELSE [hedgeCall EXCEPT !.pc = "calculate", !.quotes = getQuotes(betQuotes)]
    /\ UNCHANGED <<stateMap, filterVars, systemVars, detectVars, rankVars, ingestVars, serviceVars, eventStatus, userBet, betQuotes, monitoredBets, suggestions>>

\* calculateHedgeSuggestion, calculateHedge and createHedgeSuggestion: null when
\* there is no hedge that locks a profit, else the suggestion is stored.
hedgeCalculate ==
    /\ hedgeCall.pc = "calculate"
    /\ LET hedgeCalculation == calculateHedge(hedgeCall.bet, hedgeCall.quotes)
       IN IF hedgeCalculation = <<>>
          THEN /\ hedgeCall' = [hedgeCall EXCEPT !.pc = "idle", !.returned = "null"]
               /\ UNCHANGED suggestions
          ELSE /\ suggestions' = createHedgeSuggestion(suggestions, "bet_1", hedgeCalculation[1])
               /\ hedgeCall' = [hedgeCall EXCEPT !.pc = "idle", !.returned = "suggestion",
                                                 !.atWrite = [isTracked |-> userBet.isTracked,
                                                              eventStatus |-> eventStatus,
                                                              quotes |-> betQuotes,
                                                              at |-> clock]]
    /\ UNCHANGED <<stateMap, filterVars, systemVars, detectVars, rankVars, ingestVars, serviceVars, eventStatus, userBet, betQuotes, monitoredBets>>

\* The user_bets table: the rows with their ids.
UserBetRows == IF userBet.exists THEN {[id |-> "bet_1", row |-> userBet]} ELSE {}

\* storage.getUserBets with a status filter: the rows of that user with that settlement.
getUserBets(rows, userId, status) == {bet \in rows : bet.row.userId = userId /\ bet.row.settlement = status}

\* runHedgeMonitoring: a run of the hedge_monitor job.  It reads the pending
\* bets with getUserBets("", ...), keeps the tracked ones, calls
\* calculateHedgeSuggestion for each and records the metrics with "success".
runHedgeMonitoring ==
    /\ hedgeCall.pc = "idle"
    /\ LET trackedBets == getUserBets(UserBetRows, "", "pending")
           activeBets == {bet \in trackedBets : bet.row.isTracked}
       IN /\ monitorRun' = [status |-> "success",
                            trackedBets |-> Cardinality(activeBets),
                            hedgesCalculated |-> Cardinality(activeBets),
                            invoked |-> {bet.id : bet \in activeBets},
                            due |-> {bet.id : bet \in {b \in UserBetRows : b.row.isTracked /\ b.row.settlement = "pending"}}]
          /\ hedgeCall' = IF activeBets = {} THEN hedgeCall ELSE [NoHedgeCall EXCEPT !.pc = "get_bet"]
    /\ UNCHANGED <<stateMap, filterVars, systemVars, detectVars, rankVars, ingestVars, arbsResponse, trackRequest, flagVars, eventStatus, userBet, betQuotes, monitoredBets, suggestions>>

(***************************************************************************)
(* 4.5 Feature flags: FeatureFlagService and PUT /api/flags/:key, for one  *)
(* flag key.  <<>> stands for undefined / no row, <<v>> for a value.       *)
(***************************************************************************)
MaxFlagCalls == 2    \* isEnabled calls for the key

FlagCallIds == 1..MaxFlagCalls

\* CACHE_TTL, 5 * 60 * 1000 ms, in seconds.
CACHE_TTL == (5 * 60 * 1000) \div 1000

NoFlagService == [cache |-> <<>>, cacheExpiry |-> <<>>]

\* expected, overlapped and failed are bookkeeping of the model: the value of
\* the last update that had completed when the call started, whether an update
\* was in flight at any time of the call, and whether its storage read failed.
NoFlagCall == [pc |-> "idle", defaultValue |-> FALSE, flag |-> <<>>, returned |-> <<>>,
               expected |-> <<>>, overlapped |-> FALSE, failed |-> FALSE]

\* completed: the enabled of the last completed update (<<>> before any).
NoFlagUpdate == [pc |-> "idle", enabled |-> FALSE, completed |-> <<>>]

FlagIdle ==
    /\ flagRow = <<>>
    /\ flagService = NoFlagService
    /\ flagCalls = [c \in FlagCallIds |-> NoFlagCall]
    /\ flagUpdate = NoFlagUpdate

\* The calls in flight are marked as overlapped by an update.
Overlap(fcalls) ==
    [c \in FlagCallIds |-> IF fcalls[c].pc \in {"fetching", "fetched"} THEN [fcalls[c] EXCEPT !.overlapped = TRUE] ELSE fcalls[c]]

\* isEnabled up to its await: a cached value that has not expired is returned,
\* otherwise the flag is fetched from storage.
isEnabledStart(c, defaultValue) ==
    /\ flagCalls[c].pc = "idle"
    /\ \A d \in 1..(c - 1) : flagCalls[d].pc # "idle"
    /\ LET cachedValue == flagService.cache
           expiry == flagService.cacheExpiry
           started == [NoFlagCall EXCEPT !.defaultValue = defaultValue, !.expected = flagUpdate.completed,
                                         !.overlapped = flagUpdate.pc # "idle"]
       IN flagCalls' = [flagCalls EXCEPT ![c] =
              IF cachedValue # <<>> /\ expiry # <<>> /\ expiry[1] # 0 /\ clock < expiry[1]
              THEN [started EXCEPT !.pc = "done", !.returned = cachedValue]
              ELSE [started EXCEPT !.pc = "fetching"]]
    /\ UNCHANGED <<stateMap, filterVars, systemVars, detectVars, hedgeVars, rankVars, ingestVars, monitorRun, arbsResponse, trackRequest, flagRow, flagService, flagUpdate>>

\* storage.getFeatureFlag reads the row, or fails.
isEnabledFetch(c, ok) ==
    /\ flagCalls[c].pc = "fetching"
    /\ flagCalls' = [flagCalls EXCEPT ![c] = [@ EXCEPT !.pc = "fetched", !.flag = IF ok THEN flagRow ELSE <<>>, !.failed = ~ok]]
    /\ UNCHANGED <<stateMap, filterVars, systemVars, detectVars, hedgeVars, rankVars, ingestVars, monitorRun, arbsResponse, trackRequest, flagRow, flagService, flagUpdate>>

\* isEnabled after its await: the flag's enabled, or the default when there is
\* no row, is cached for CACHE_TTL and returned; after a storage error the
\* default is returned and nothing is cached.
isEnabledReturn(c) ==
    /\ flagCalls[c].pc = "fetched"
    /\ IF flagCalls[c].failed
       THEN /\ flagCalls' = [flagCalls EXCEPT ![c] = [@ EXCEPT !.pc = "done", !.returned = <<flagCalls[c].defaultValue>>]]
            /\ UNCHANGED flagService
       ELSE LET isEnabled == IF flagCalls[c].flag # <<>> THEN flagCalls[c].flag[1] ELSE flagCalls[c].defaultValue
            IN /\ flagService' = [cache |-> <<isEnabled>>, cacheExpiry |-> <<clock + CACHE_TTL>>]
               /\ flagCalls' = [flagCalls EXCEPT ![c] = [@ EXCEPT !.pc = "done", !.returned = <<isEnabled>>]]
    /\ UNCHANGED <<stateMap, filterVars, systemVars, detectVars, hedgeVars, rankVars, ingestVars, monitorRun, arbsResponse, trackRequest, flagRow, flagUpdate>>

\* setFlag up to the end of its await: storage.upsertFeatureFlag writes the row.
\* (A failing upsert is thrown and changes nothing.)
setFlagUpsert(enabled) ==
    /\ flagUpdate.pc = "idle"
    /\ flagRow' = <<enabled>>
    /\ flagUpdate' = [flagUpdate EXCEPT !.pc = "upserted", !.enabled = enabled]
    /\ flagCalls' = Overlap(flagCalls)
    /\ UNCHANGED <<stateMap, filterVars, systemVars, detectVars, hedgeVars, rankVars, ingestVars, monitorRun, arbsResponse, trackRequest, flagService>>

\* setFlag after its await: the key is deleted from cache and cacheExpiry.
setFlagClear ==
    /\ flagUpdate.pc = "upserted"
    /\ flagService' = NoFlagService
    /\ flagUpdate' = [flagUpdate EXCEPT !.pc = "idle", !.completed = <<flagUpdate.enabled>>]
    /\ UNCHANGED <<stateMap, filterVars, systemVars, detectVars, hedgeVars, rankVars, ingestVars, monitorRun, arbsResponse, trackRequest, flagRow, flagCalls>>

\* PUT /api/flags/:key: the row is written with storage.upsertFeatureFlag.
putFlag(enabled) ==
    /\ flagUpdate.pc = "idle"
    /\ flagRow' = <<enabled>>
    /\ flagUpdate' = [flagUpdate EXCEPT !.completed = <<enabled>>]
    /\ flagCalls' = Overlap(flagCalls)
    /\ UNCHANGED <<stateMap, filterVars, systemVars, detectVars, hedgeVars, rankVars, ingestVars, monitorRun, arbsResponse, trackRequest, flagService>>

(***************************************************************************)
(* Specifications.                                                         *)
(***************************************************************************)
FilterIdle == filterCall = NoFilterCall

SystemIdle == jobRuns = <<>> /\ calls = [c \in CallIds |-> NoCall]

ServiceIdle == monitorRun = NoMonitorRun /\ arbsResponse = NoArbsResponse /\ trackRequest = NoTrackRequest /\ FlagIdle

IngestIdle == providerEvent = <<>> /\ storedMarket = NoStoredMarket /\ storedQuotes = <<>> /\ scanResult = NoScanResult

RankIdle == oddsData = <<>> /\ arbRows = <<>> /\ clock = 0 /\ ranking = NoRanking

HedgeIdle == eventStatus = "none" /\ userBet = NoBet /\ betQuotes = <<>> /\ monitoredBets = {} /\ suggestions = <<>> /\ hedgeCall = NoHedgeCall

DetectIdle == market = NoMarket /\ minProfitPct = 1000 /\ calculated = NoResult /\ detected = NoResult

\* The eligibility filter under every state map an admin can install.
InitFilter ==
    /\ stateMap = DefaultStateMap
    /\ apiKey = TRUE
    /\ FilterIdle /\ SystemIdle /\ DetectIdle /\ HedgeIdle /\ RankIdle /\ IngestIdle /\ ServiceIdle

NextFilter ==
    \/ \E m \in StateMaps : updateStateMap(m)
    \/ \E s \in StateLists : FilterBookmakers(s)

SpecFilter == InitFilter /\ [][NextFilter]_vars

\* A scan's storing of one provider event, over every event of the bounds.
InitIngest ==
    /\ stateMap = DefaultStateMap
    /\ apiKey = TRUE
    /\ FilterIdle /\ SystemIdle /\ DetectIdle /\ HedgeIdle /\ RankIdle /\ IngestIdle /\ ServiceIdle

NextIngest ==
    \/ \E bookmaker \in ProviderBookmakers : ProviderLists(bookmaker)
    \/ StoreOddsData(<<"CA">>)
    \/ CalculateFromStored(<<"CA">>)

SpecIngest == InitIngest /\ [][NextIngest]_vars

\* Steps 3 - 5 of a scan over every odds data of the bounds.
InitRank ==
    /\ stateMap = DefaultStateMap
    /\ apiKey = TRUE
    /\ FilterIdle /\ SystemIdle /\ DetectIdle /\ HedgeIdle /\ RankIdle /\ IngestIdle /\ ServiceIdle

NextRank ==
    \/ \E prices \in MarketPrices : AddMarket(prices)
    \/ \E seconds \in ElapsedSeconds : Tick(seconds)
    \/ \E minProfit \in MinProfitInputs : getArbs(minProfit)
    \/ runCleanup
    \/ \E persistOk \in BOOLEAN : RankAndStore(persistOk)

SpecRank == InitRank /\ [][NextRank]_vars

\* The two detectors over every market of the bounds.
InitDetect ==
    /\ stateMap = DefaultStateMap
    /\ apiKey = TRUE
    /\ FilterIdle /\ SystemIdle /\ DetectIdle /\ HedgeIdle /\ RankIdle /\ IngestIdle /\ ServiceIdle

NextDetect ==
    \/ \E rows \in BookmakerRows : AddOutcome(rows)
    \/ \E p \in MinProfitPcts : Calculate(p)
    \/ Detect

SpecDetect == InitDetect /\ [][NextDetect]_vars

\* The scheduler's jobs and the scans, as requests that interleave.
Init ==
    /\ stateMap = DefaultStateMap
    /\ apiKey \in BOOLEAN
    /\ FilterIdle /\ SystemIdle /\ DetectIdle /\ HedgeIdle /\ RankIdle /\ IngestIdle /\ ServiceIdle

Next ==
    \/ \E m \in ScanStateMaps : updateStateMap(m)
    \/ \E c \in CallIds :
        \/ \E jobName \in RunJobInputs : runJob(c, jobName)
        \/ runOddsPollingStart(c)
        \/ \E leaguesOk \in BOOLEAN, leagueIds \in SeqsUpTo({"league_1"}, MaxLeagues) : runOddsPollingTry(c, leaguesOk, leagueIds)
        \/ \E ok \in BOOLEAN : fetchSport(c, ok, TRUE)
        \/ \E storeOk \in BOOLEAN : fetchOddsFinish(c, storeOk)
        \/ fetchOddsCatch(c)
        \/ runOddsPollingFinish(c)
        \/ runOddsPollingCatch(c)
        \/ recalculateArbitrageStart(c)
        \/ recalculateArbitrageFinish(c)
        \/ runHedgeMonitoringStart(c)
        \/ \E ok \in BOOLEAN : runHedgeMonitoringTry(c, ok)
        \/ runHedgeMonitoringCatch(c)
        \/ runCleanupStart(c)
        \/ \E ok \in BOOLEAN : runCleanupTry(c, ok)
        \/ runCleanupCatch(c)
        \/ \E states \in ScanStateLists, confirmed \in {"false", "true"} : scanRoute(c, states, <<>>, <<>>, confirmed)
        \/ scanStart(c)
        \/ scanFilter(c)
        \/ \E storeOk \in BOOLEAN : scanStore(c, storeOk)
        \/ \E persistOk \in BOOLEAN : scanFinish(c, persistOk)
        \/ scanCatch(c)

Spec == Init /\ [][Next]_vars

\* One request, an estimate or a scan, over every body of the input sets and
\* every outcome of its provider requests and storage calls.
NextScan ==
    \/ \E m \in ScanStateMaps : updateStateMap(m)
    \/ \E states \in ScanStateLists, sports \in SportsInputs, regions \in RegionInputs : estimateRoute(1, states, sports, regions)
    \/ \E states \in ScanStateLists, sports \in SportsInputs, regions \in RegionInputs, confirmed \in ConfirmedInputs :
          scanRoute(1, states, sports, regions, confirmed)
    \/ scanStart(1)
    \/ scanFilter(1)
    \/ \E ok \in BOOLEAN, headers \in BOOLEAN : fetchSport(1, ok, headers)
    \/ \E storeOk \in BOOLEAN : scanStore(1, storeOk)
    \/ \E persistOk \in BOOLEAN : scanFinish(1, persistOk)
    \/ scanCatch(1)

SpecScan == Init /\ [][NextScan]_vars


\* The hedge engine on one bet.
InitHedge ==
    /\ stateMap = DefaultStateMap
    /\ apiKey = TRUE
    /\ FilterIdle /\ SystemIdle /\ DetectIdle /\ HedgeIdle /\ RankIdle /\ IngestIdle /\ ServiceIdle

NextHedge ==
    \/ \E status \in EventStatuses : createEvent(status)
    \/ \E userId \in UserIds, stake \in BetStakes, priceAtBet \in BetPrices : createUserBet(userId, stake, priceAtBet)
    \/ \E outcomeId \in QuoteOutcomes, priceValue \in QuotePrices : createQuote(outcomeId, priceValue)
    \/ trackBet
    \/ untrackBet
    \/ hedgeGetUserBet
    \/ hedgeGetEvent
    \/ hedgeGetQuotes
    \/ hedgeCalculate
    \/ runHedgeMonitoring

SpecHedge == InitHedge /\ [][NextHedge]_vars

\* The hedge engine over time: one pending bet on a scheduled event, whose
\* market gains quotes on the opposing outcome while the clock advances.
NextQuoteAge ==
    \/ createEvent("scheduled")
    \/ createUserBet("user_1", 100, 30000)
    \/ \E priceValue \in QuotePrices : createQuote("outcome_1", priceValue)
    \/ \E seconds \in ElapsedSeconds : Tick(seconds)
    \/ trackBet
    \/ untrackBet
    \/ hedgeGetUserBet
    \/ hedgeGetEvent
    \/ hedgeGetQuotes
    \/ hedgeCalculate

SpecQuoteAge == InitHedge /\ [][NextQuoteAge]_vars

\* The feature flag of one key: isEnabled calls, updates by setFlag and by the
\* route, and the clock.
NextFlags ==
    \/ \E c \in FlagCallIds, defaultValue \in BOOLEAN : isEnabledStart(c, defaultValue)
    \/ \E c \in FlagCallIds, ok \in BOOLEAN : isEnabledFetch(c, ok)
    \/ \E c \in FlagCallIds : isEnabledReturn(c)
    \/ \E enabled \in BOOLEAN : setFlagUpsert(enabled)
    \/ setFlagClear
    \/ \E enabled \in BOOLEAN : putFlag(enabled)
    \/ Tick(6 * 60)

SpecFlags == InitHedge /\ [][NextFlags]_vars

(***************************************************************************)
(* The claims.                                                             *)
(***************************************************************************)
\* The bookmakers listed in one jurisdiction (none when the map has no such entry).
ListedIn(map, state) == UNION {ToSet(map[i].bookmakers) : i \in {j \in 1..Len(map) : map[j].state = state}}

\* C4: for a non-empty request the filter returns exactly the intersection of the
\* requested jurisdictions' bookmaker sets: a bookmaker is returned iff every
\* requested jurisdiction lists it.
C4_ExactIntersection ==
    (filterCall.called /\ Len(filterCall.states) > 0) =>
        ToSet(filterCall.result) = {b \in Books : \A s \in ToSet(filterCall.states) : b \in ListedIn(stateMap, s)}

\* The price of American odds as the implied probability it stands for:
\* 100 / (odds + 100) for positive odds, |odds| / (|odds| + 100) for negative ones.
Implied(americanOdds) ==
    IF americanOdds > 0 THEN <<100, americanOdds + 100>> ELSE <<Abs(americanOdds), Abs(americanOdds) + 100>>

\* The outcomes of the market that at least one bookmaker prices.
PricedOutcomes == SelectSeq(market.outcomes, LAMBDA o : Len(o.bookmakers) > 0)

\* 1 / best_price of an outcome: the least implied probability among its prices.
BestImplied(o) ==
    LET all == {Implied(o.bookmakers[j].price) : j \in 1..Len(o.bookmakers)}
    IN CHOOSE r \in all : \A q \in all : RatLeq(r, q)

\* The sum over the priced outcomes of 1 / best_price.
BestImpliedSum == RatSum([i \in 1..Len(PricedOutcomes) |-> BestImplied(PricedOutcomes[i])])

\* C6: no false positive: when the sum over the outcomes of 1 / best_price is at
\* least 1, neither calculateArbitrageOpportunities nor detectArbitrage returns
\* an opportunity for the market.
C6_NoFalsePositive ==
    RatLeq(<<1, 1>>, BestImpliedSum) =>
        /\ calculated.called => calculated.result = <<>>
        /\ detected.called => detected.result = <<>>

\* C6 witness: both detectors have run on a market with two or more priced
\* outcomes whose best prices sum to at least 1.
C6_Witness ==
    /\ calculated.called /\ detected.called
    /\ Len(PricedOutcomes) >= 2
    /\ RatLeq(<<1, 1>>, BestImpliedSum)

\* C7: every opportunity calculateArbitrageOpportunities returns reports a
\* profitPct (rounded to hundredths of a percent) not below the minProfitPct
\* (thousandths of a percent) it was called with.
C7_ProfitThreshold ==
    calculated.called =>
        \A k \in 1..Len(calculated.result) : 10 * calculated.result[k].profitPct >= minProfitPct

\* The decimal price of American odds, as numerator and denominator.
DecimalOf(americanOdds) ==
    IF americanOdds > 0 THEN <<americanOdds + 100, 100>> ELSE <<Abs(americanOdds) + 100, Abs(americanOdds)>>

\* a <= b for non-negative rationals, comparing whole parts before remainders.
AtMost(a, b) ==
    IF a[1] \div a[2] # b[1] \div b[2] THEN a[1] \div a[2] < b[1] \div b[2]
    ELSE (a[1] % a[2]) * b[2] <= (b[1] % b[2]) * a[2]

\* Two payouts stake * price agree up to the rounding of each stake to a whole
\* unit: they differ by at most half of one price plus half of the other.
PayoutsAgree(stake1, price1, stake2, price2) ==
    LET payout1 == RatMul(<<stake1, 1>>, price1)
        payout2 == RatMul(<<stake2, 1>>, price2)
        diff == IF RatLess(payout1, payout2) THEN RatSub(payout2, payout1) ELSE RatSub(payout1, payout2)
    IN AtMost(diff, RatDiv(RatAdd(price1, price2), <<2, 1>>))

\* C8: stake equalization: in every detected opportunity stake * price is the
\* same for all legs up to the rounding of the stakes, and the stakes sum to the
\* bankroll of 10000 up to half a unit per leg.  For detectArbitrage a leg's
\* stake is its stakeFraction of the bankroll, so that stakeFraction * price is
\* the same for all legs and the fractions sum to 1.
C8_StakeEqualization ==
    /\ calculated.called =>
        \A k \in 1..Len(calculated.result) :
            LET legs == calculated.result[k].legs
            IN /\ \A i, j \in 1..Len(legs) : PayoutsAgree(legs[i].stake, DecimalOf(legs[i].odds[2]), legs[j].stake, DecimalOf(legs[j].odds[2]))
               /\ 2 * Abs(RatSum([i \in 1..Len(legs) |-> <<legs[i].stake, 1>>])[1] - Bankroll) <= Len(legs)
    /\ detected.called =>
        \A k \in 1..Len(detected.result) :
            LET legs == detected.result[k].legs
            IN /\ \A i, j \in 1..Len(legs) : RatMul(legs[i].stakeFraction, legs[i].priceValue) = RatMul(legs[j].stakeFraction, legs[j].priceValue)
               /\ RatSum([i \in 1..Len(legs) |-> legs[i].stakeFraction]) = <<1, 1>>

\* C8 witness: both detectors returned an opportunity with three legs.
C8_Witness ==
    /\ calculated.called /\ Len(calculated.result) = 1 /\ Len(calculated.result[1].legs) = 3
    /\ detected.called /\ Len(detected.result) = 1 /\ Len(detected.result[1].legs) = 3

\* C9: the legs of every detected opportunity cover every outcome of the market
\* exactly once, and a market with an outcome that no bookmaker prices yields no
\* opportunity.
C9_LegsCoverEveryOutcome ==
    LET names == [i \in 1..Len(market.outcomes) |-> market.outcomes[i].name]
    IN /\ calculated.called =>
            \A k \in 1..Len(calculated.result) :
                [i \in 1..Len(calculated.result[k].legs) |-> calculated.result[k].legs[i].outcome] = names
       /\ detected.called =>
            \A k \in 1..Len(detected.result) :
                [i \in 1..Len(detected.result[k].legs) |-> detected.result[k].legs[i].outcomeId] = names
       /\ (calculated.called /\ Len(PricedOutcomes) < Len(market.outcomes)) => calculated.result = <<>>
       /\ (detected.called /\ Len(PricedOutcomes) < Len(market.outcomes)) => detected.result = <<>>

Terminal == {"success", "failed"}

Ended(c) == calls[c].pc \in {"returned", "thrown"}

\* C1: at no time are two runs of the same registered job in progress: no two
\* job-run records of one job name have status "running" together.
C1_NoOverlappingRuns ==
    \A i, j \in 1..Len(jobRuns) :
        (i # j /\ jobRuns[i].jobName \in JobNames /\ jobRuns[i].jobName = jobRuns[j].jobName) =>
            ~(jobRuns[i].status = "running" /\ jobRuns[j].status = "running")

C3_OutcomeRecorded ==
    \A c \in CallIds :
        (calls[c].kind = "job" /\ calls[c].jobName \in JobNames /\ Ended(c)) =>
            /\ getJobStatuses(jobRuns, calls[c].jobName) # 0
            /\ \E i \in 1..Len(jobRuns) :
                /\ jobRuns[i].jobName = calls[c].jobName
                /\ jobRuns[i].status \in Terminal
                /\ jobRuns[i].status = "failed" => jobRuns[i].errorSummary

\* C5: a scan with an empty state list, or with no bookmaker listed in every
\* requested state, issues no provider request, stores no quote and does not
\* return a result.
C5_NoFetchWithoutBookmakers ==
    \A c \in CallIds :
        (/\ calls[c].kind = "scan"
         /\ \/ calls[c].states = <<>>
            \/ calls[c].pc \notin {"scan_start", "scan_filter", "rejected"} /\ calls[c].listed = {}) =>
            /\ calls[c].results = <<>>
            /\ calls[c].stored = 0
            /\ calls[c].pc # "returned"

\* The profit a hedge at the best opposing price locks, in dollars:
\* stake * (odds - 1 - odds / hedgeOdds).
LockedProfit(bet, marketQuotes) ==
    LET opposing == {i \in 1..Len(marketQuotes) : marketQuotes[i].outcomeId # bet.outcomeId}
        best == CHOOSE i \in opposing : \A j \in opposing : marketQuotes[j].priceValue <= marketQuotes[i].priceValue
        odds == Rat(bet.priceAtBet, 10000)
    IN RatMul(Rat(bet.stake, 100), RatSub(RatSub(odds, <<1, 1>>), RatDiv(odds, Rat(marketQuotes[best].priceValue, 10000))))

\* C10: hedge positivity: every hedge suggestion created has lockedProfitLow > 0
\* and lockedProfitLow <= lockedProfitHigh; and a calculation whose locked
\* profit is not positive returns null and creates no suggestion.
C10_HedgePositivity ==
    /\ \A k \in 1..Len(suggestions) :
        /\ suggestions[k].lockedProfitLow > 0
        /\ suggestions[k].lockedProfitLow <= suggestions[k].lockedProfitHigh
    /\ (/\ hedgeCall.pc = "idle" /\ hedgeCall.returned # "none"
        /\ \E i \in 1..Len(hedgeCall.quotes) : hedgeCall.quotes[i].outcomeId # hedgeCall.bet.outcomeId
        /\ LockedProfit(hedgeCall.bet, hedgeCall.quotes)[1] <= 0) =>
            (hedgeCall.returned = "null" /\ suggestions = <<>>)

\* C11: a hedge suggestion is written only for a bet that is tracked at the
\* moment of the write, whose event is scheduled and whose market has a quote
\* on another outcome than the bet's, under every interleaving with untrack.
C11_WrittenOnlyWhenTracked ==
    hedgeCall.returned = "suggestion" =>
        /\ hedgeCall.atWrite.isTracked
        /\ hedgeCall.atWrite.eventStatus = "scheduled"
        /\ \E i \in 1..Len(hedgeCall.atWrite.quotes) : hedgeCall.atWrite.quotes[i].outcomeId # hedgeCall.bet.outcomeId

\* The bettor's net profit when outcome winner wins, in ten-thousandths of a
\* cent: the payouts of the bet and of the legs on the winner, less every stake.
\* A bet's stake is in cents, a leg's stake in dollars, prices in ten-thousandths.
RECURSIVE LegsPayout(_, _)
LegsPayout(legs, winner) ==
    IF legs = <<>> THEN 0
    ELSE (IF legs[1].outcomeId = winner THEN legs[1].stake * 100 * legs[1].priceValue ELSE 0)
         + LegsPayout(Tail(legs), winner)

RECURSIVE LegsStake(_)
LegsStake(legs) == IF legs = <<>> THEN 0 ELSE legs[1].stake * 100 + LegsStake(Tail(legs))

NetProfit(bet, legs, winner) ==
    (IF bet.outcomeId = winner THEN bet.stake * bet.priceAtBet ELSE 0)
    + LegsPayout(legs, winner)
    - (bet.stake + LegsStake(legs)) * 10000

\* The outcomes of the bet's market: the bet's own and every quoted one.
MarketOutcomes(bet, marketQuotes) ==
    {bet.outcomeId} \cup {marketQuotes[i].outcomeId : i \in 1..Len(marketQuotes)}

\* C12: for every stored hedge suggestion, the bet together with the suggested
\* legs nets at least lockedProfitLow whichever outcome of the market wins.
C12_LockedWhicheverOutcomeWins ==
    hedgeCall.returned = "suggestion" =>
        \A k \in 1..Len(suggestions) :
            \A winner \in MarketOutcomes(hedgeCall.bet, hedgeCall.quotes) :
                NetProfit(hedgeCall.bet, suggestions[k].suggestedLegs, winner) >= suggestions[k].lockedProfitLow * 10000

\* a / b < c / d for a, c >= 0 and b, d > 0, by the whole parts and then the
\* inverted remainders, so that no product is formed.
RECURSIVE FracLess(_, _, _, _)
FracLess(a, b, c, d) ==
    IF a \div b # c \div d THEN a \div b < c \div d
    ELSE IF c % d = 0 THEN FALSE
    ELSE IF a % b = 0 THEN TRUE
    ELSE FracLess(d, c % d, b, a % b)

\* Opportunity x may stand before opportunity y in the ranking: a higher locked
\* profit, or the same with a higher confidence, or both the same with an
\* expiry that is not later (the expiry being validityWindow after the scan).
RankedBefore(x, y) ==
    \/ x.lockedProfit > y.lockedProfit
    \/ /\ x.lockedProfit = y.lockedProfit
       /\ FracLess(y.confidenceScore[1], y.confidenceScore[2], x.confidenceScore[1], x.confidenceScore[2])
    \/ /\ x.lockedProfit = y.lockedProfit
       /\ x.confidenceScore = y.confidenceScore
       /\ x.validityWindow <= y.validityWindow

NewRows == SubSeq(arbRows, Len(ranking.before) + 1, Len(arbRows))

RECURSIVE SumEstimatedRequests(_)
SumEstimatedRequests(endpoints) ==
    IF endpoints = <<>> THEN 0 ELSE endpoints[1].estimatedRequests + SumEstimatedRequests(Tail(endpoints))

C16_EstimateMatchesScan ==
    \A c \in CallIds :
        At(c, "scan", "returned") =>
            LET estimate == estimateAPIUsage(stateMap, calls[c].states, calls[c].request.sports, calls[c].request.regions)
            IN /\ estimate.totalEstimatedRequests = Len(calls[c].results)
               /\ estimate.selectedSports = SubSeq(calls[c].sports, 1, Len(calls[c].results))

\* C17: a scan request whose confirmed is absent or not true is rejected, with
\* no job run created and no provider request issued for it.
C17_ConfirmationGate ==
    \A c \in CallIds :
        (calls[c].kind = "scan" /\ calls[c].request.confirmed # "true") =>
            /\ calls[c].pc = "rejected"
            /\ calls[c].run = 0
            /\ calls[c].results = <<>>
            /\ jobRuns = <<>>

\* A scan request that names a state and carries confirmed = false was rejected.
C17_Witness ==
    \E c \in CallIds :
        /\ calls[c].kind = "scan" /\ calls[c].request.confirmed = "false"
        /\ Len(calls[c].states) >= 1
        /\ calls[c].pc = "rejected"

\* C18: a sport whose fetch fails does not abort the scan: the scan stays in
\* the loop or goes on to its calculation, and once the loop is left every
\* sport has been requested and every sport that answered has been processed.
C18_PartialFailureTolerated ==
    \A c \in CallIds :
        (calls[c].kind = "scan" /\ \E i \in 1..Len(calls[c].results) : calls[c].results[i] = "failed") =>
            /\ calls[c].pc \in {"api_loop", "scan_calc", "returned"}
            /\ calls[c].pc # "api_loop" =>
                  /\ Len(calls[c].results) = Len(calls[c].sports)
                  /\ calls[c].processed = OkCount(calls[c].results)

\* A scan of two sports returned: the first sport's fetch failed, the second
\* one's events were processed and their quotes stored.
C18_Witness ==
    \E c \in CallIds :
        /\ At(c, "scan", "returned")
        /\ calls[c].results = <<"failed", "ok">>
        /\ calls[c].processed = 1
        /\ calls[c].stored > 0

\* C19: a scan whose fetch failed for every sport it requested ends in failure:
\* its job run is "failed" and the caller gets the error.
C19_AllSportsFailedIsFailure ==
    \A c \in CallIds :
        ( /\ calls[c].kind = "scan" /\ calls[c].pc \in {"returned", "thrown"}
          /\ Len(calls[c].results) >= 1
          /\ \A i \in 1..Len(calls[c].results) : calls[c].results[i] = "failed" ) =>
            /\ calls[c].pc = "thrown"
            /\ jobRuns[calls[c].run].status = "failed"

\* C20: the creditUsage a scan returns is the usage the provider reported in
\* its last response that carried one, whenever a response of the scan did.
C20_ReportedCreditUsageReturned ==
    \A c \in CallIds :
        (At(c, "scan", "returned") /\ calls[c].reported # <<>>) => calls[c].creditUsage = calls[c].reported

\* C21: when no API key is configured, no provider request is issued and no
\* quote stored, an ingestion job that has ended has thrown with its run
\* "failed", and no scan returns a result or takes up odds data.
C21_MissingKeyIsFatal ==
    ~apiKey =>
        \A c \in CallIds :
            /\ calls[c].results = <<>> /\ calls[c].stored = 0
            /\ (AtHandler(c, "runOddsPolling", calls[c].pc) /\ Ended(c)) =>
                  (calls[c].pc = "thrown" /\ jobRuns[calls[c].run].status = "failed")
            /\ calls[c].kind = "scan" => (calls[c].pc # "returned" /\ calls[c].source = "none")

\* The best stored price of an outcome of the stored market, 0 when it has none.
BestStored(outcomeId) ==
    LET prices == {storedQuotes[i].priceValue : i \in {j \in 1..Len(storedQuotes) : storedQuotes[j].outcomeId = outcomeId}}
    IN IF prices = {} THEN 0 ELSE CHOOSE p \in prices : \A q \in prices : q <= p

\* The stored market is an arbitrage by the rule of the claim: every outcome is
\* priced, the sum of 1 / best price is at most 0.98 and the profit at least 1.0 %.
StoredArbitrage ==
    /\ Len(storedMarket.outcomes) >= 2
    /\ \A i \in 1..Len(storedMarket.outcomes) : BestStored(storedMarket.outcomes[i].id) > 0
    /\ LET sum == RatSum([i \in 1..Len(storedMarket.outcomes) |-> Rat(10000, BestStored(storedMarket.outcomes[i].id))])
       IN RatLeq(sum, <<98, 100>>) /\ MeetsMinProfit(sum, 1000)

\* C22: when the quotes a scan stored hold a market that is an arbitrage among
\* the eligible sportsbooks, the ranked list the scan returns holds an
\* opportunity.
C22_StoredArbitrageIsRanked ==
    (scanResult.returned /\ StoredArbitrage) => Len(scanResult.rankedOpportunities) >= 1

\* C27: every stored quote prices the provider outcome that the market labels
\* with the quote's outcomeId.
C27_QuotePricesLabelledOutcome ==
    \A i \in 1..Len(storedQuotes) :
        \E j \in 1..Len(storedMarket.outcomes) :
            /\ storedMarket.outcomes[j].id = storedQuotes[i].outcomeId
            /\ storedMarket.outcomes[j].label = storedQuotes[i].priced

\* C23: a run of the hedge_monitor job calls the hedge calculation for every
\* bet, of any user, that is tracked and pending, and its trackedBets metric is
\* the number of these bets.
C23_MonitorCoversTrackedBets ==
    monitorRun.status = "success" =>
        /\ monitorRun.invoked = monitorRun.due
        /\ monitorRun.trackedBets = Cardinality(monitorRun.due)

RecencyCutoff == 5 * 60

\* The quote calculateHedge takes the hedge leg's price from.
SelectedQuote(bet, marketQuotes) ==
    LET opposingQuotes == SelectSeq(marketQuotes, LAMBDA quote : quote.outcomeId # bet.outcomeId)
    IN BestOpposingLoop(opposingQuotes, 2, opposingQuotes[1])

\* C25: the quote selected as the best price of a hedge leg was captured within
\* the recency cutoff of the calculation, however many quotes the market has.
C25_LegQuoteWithinCutoff ==
    (hedgeCall.pc = "idle" /\ hedgeCall.returned = "suggestion") =>
        hedgeCall.atWrite.at - SelectedQuote(hedgeCall.bet, hedgeCall.quotes).timestamp <= RecencyCutoff

\* C26: the odds rows a scan returns are derived from provider data of that
\* scan; the built-in mock data, which carries no mark that it is simulated, is
\* never returned as the result.
C26_NoMockPresentedAsReal ==
    \A c \in CallIds : At(c, "scan", "returned") => calls[c].comprehensiveData # "mock"

\* The sum of the stakes a recommendedStakes object holds.
RECURSIVE SumStakes(_, _)
SumStakes(stakes, keys) ==
    IF keys = {} THEN 0
    ELSE LET k == CHOOSE x \in keys : TRUE IN stakes[k] + SumStakes(stakes, keys \ {k})

\* C28: the recommendedStakes of an opportunity hold one stake per leg, and the
\* stakes sum to the bankroll within the rounding of each stake to a whole
\* dollar; also when one sportsbook has the best price of several outcomes.
C28_OneStakePerLeg ==
    (detected.called /\ detected.result # <<>>) =>
        LET opportunity == detected.result[1]
            total == SumStakes(opportunity.recommendedStakes, DOMAIN opportunity.recommendedStakes)
        IN /\ Cardinality(DOMAIN opportunity.recommendedStakes) = Len(opportunity.legs)
           /\ Abs(total - Bankroll) <= Len(opportunity.legs)

\* C29: a track request for a bet that was not tracked triggers a hedge
\* calculation for it, whatever track and untrack requests came before.
C29_TrackTriggersCalculation ==
    (trackRequest.answered /\ ~trackRequest.wasTracked) => trackRequest.calculated

\* C30: an isEnabled call that starts after an update of the flag has completed,
\* with no update in flight during the call and no storage error, returns the
\* updated value.
C30_UpdateVisibleToLaterCalls ==
    \A c \in FlagCallIds :
        (flagCalls[c].pc = "done" /\ flagCalls[c].expected # <<>> /\ ~flagCalls[c].overlapped /\ ~flagCalls[c].failed) =>
            flagCalls[c].returned = flagCalls[c].expected

====
